---- MODULE Spec2Model ----
(***************************************************************************)
(* A model of AndroidExtractor (src/core_extractor.py): the backup         *)
(* container parser, the archive artifact locator, and the two acquisition *)
(* strategies extract_all_data and extract_via_backup.                     *)
(*                                                                         *)
(* Files are sequences of bytes (0..255).  The evidence directory is the   *)
(* function fs from file names to contents, NoFile marking an absent file. *)
(***************************************************************************)
EXTENDS Integers, Sequences, FiniteSets, TLC

\* ------------------------------------------------------------------------
\* Bounds of the model
\* ------------------------------------------------------------------------

\* Number of API calls (parse_backup_file / extract_from_backup) in one
\* behaviour of ParserSpec.
MaxCalls == 2

\* ------------------------------------------------------------------------
\* Bytes and files
\* ------------------------------------------------------------------------

NoFile == <<-1>>

Exists(files, name) == files[name] # NoFile

\* f.read(n) at position pos of a file holding data: at most n bytes, fewer
\* (possibly none) at the end of the file.
Read(data, pos, n) ==
  LET last == IF pos + n <= Len(data) THEN pos + n ELSE Len(data)
  IN  IF pos >= Len(data) THEN <<>> ELSE SubSeq(data, pos + 1, last)

\* f.read() at position pos: everything that is left.
ReadRest(data, pos) ==
  IF pos >= Len(data) THEN <<>> ELSE SubSeq(data, pos + 1, Len(data))

\* int.from_bytes(b, byteorder='little'); the empty sequence gives 0.
RECURSIVE from_bytes_little(_)
from_bytes_little(b) ==
  IF b = <<>> THEN 0 ELSE b[1] + 256 * from_bytes_little(Tail(b))

\* n.to_bytes(4, 'little'): the encoding from_bytes_little reads back.
to_bytes_little4(n) ==
  << n % 256, (n \div 256) % 256, (n \div 65536) % 256, (n \div 16777216) % 256 >>

\* ------------------------------------------------------------------------
\* zlib (the stored-block subset: what zlib.compress(data, 0) writes)
\*   78 01 | 01 LEN(2, little) NLEN(2, little) data | ADLER32(4, big)
\* ------------------------------------------------------------------------

RECURSIVE adler_pair(_, _, _)
adler_pair(data, a, b) ==
  IF data = <<>> THEN <<a, b>>
  ELSE LET a2 == (a + data[1]) % 65521
       IN  adler_pair(Tail(data), a2, (b + a2) % 65521)

adler32(data) ==
  LET p == adler_pair(data, 1, 0) IN p[2] * 65536 + p[1]

to_bytes_big4(n) ==
  << (n \div 16777216) % 256, (n \div 65536) % 256, (n \div 256) % 256, n % 256 >>

zlib_compress0(data) ==
  LET len == Len(data)
      nlen == 65535 - len
  IN  <<120, 1, 1, len % 256, len \div 256, nlen % 256, nlen \div 256>>
        \o data \o to_bytes_big4(adler32(data))

\* zlib.decompress(s): [ok, data, err].  Bytes after the end of the stream
\* are ignored; a short stream is "incomplete or truncated stream".
zlib_decompress(s) ==
  LET Fail(e) == [ok |-> FALSE, data |-> <<>>, err |-> e]
  IN
  IF Len(s) < 2 THEN Fail("incomplete or truncated stream")
  ELSE IF s[1] % 16 # 8 \/ (s[1] * 256 + s[2]) % 31 # 0
       THEN Fail("incorrect header check")
  ELSE IF Len(s) < 3 THEN Fail("incomplete or truncated stream")
  ELSE IF s[3] # 1 THEN Fail("invalid block type")
  ELSE IF Len(s) < 7 THEN Fail("incomplete or truncated stream")
  ELSE LET len == s[4] + 256 * s[5]
           nlen == s[6] + 256 * s[7]
       IN  IF len + nlen # 65535 THEN Fail("invalid stored block lengths")
           ELSE IF Len(s) < 7 + len + 4
                THEN Fail("incomplete or truncated stream")
           ELSE LET data == Read(s, 7, len)
                    sum == Read(s, 7 + len, 4)
                IN  IF sum # to_bytes_big4(adler32(data))
                    THEN Fail("incorrect data check")
                    ELSE [ok |-> TRUE, data |-> data, err |-> ""]

\* ------------------------------------------------------------------------
\* Static configuration (class attributes of AndroidExtractor)
\* ------------------------------------------------------------------------

DATABASE_PATHS ==
  [ sms      |-> << "/data/data/com.android.providers.telephony/databases/mmssms.db",
                    "/data/data/com.android.mms/databases/mmssms.db" >>,
    calls    |-> << "/data/data/com.android.providers.contacts/databases/calllog.db",
                    "/data/data/com.android.providers.contacts/databases/contacts2.db" >>,
    chrome   |-> << "/data/data/com.android.chrome/app_chrome/Default/History",
                    "/data/data/com.chrome.browser/app_chrome/Default/History" >>,
    contacts |-> << "/data/data/com.android.providers.contacts/databases/contacts2.db" >>,
    wifi     |-> << "/data/misc/wifi/WifiConfigStore.xml",
                    "/data/misc/wifi/wpa_supplicant.conf" >>,
    packages |-> << "/data/system/packages.xml" >> ]

BACKUP_PACKAGES ==
  [ sms      |-> "com.android.providers.telephony",
    calls    |-> "com.android.providers.contacts",
    chrome   |-> "com.android.chrome",
    contacts |-> "com.android.providers.contacts" ]

BACKUP_PATHS ==
  [ sms      |-> << "apps/com.android.providers.telephony/db/mmssms.db",
                    "apps/com.android.providers.telephony/db/mmssms.db-journal",
                    "apps/com.android.mms/db/mmssms.db" >>,
    calls    |-> << "apps/com.android.providers.contacts/db/calllog.db",
                    "apps/com.android.providers.contacts/db/contacts2.db" >>,
    chrome   |-> << "apps/com.android.chrome/f/app_chrome/Default/History",
                    "apps/com.android.chrome/f/app_chrome/Default/History-journal" >>,
    contacts |-> << "apps/com.android.providers.contacts/db/contacts2.db" >> ]

\* self.evidence_dir / "combined_backup.ab" and self.backup_dir / "backup.tar"
BackupFile == "combined_backup.ab"
TarFile == "backup.tar"

\* The files of the evidence directory the model follows.
FileNames ==
  { BackupFile, TarFile, "mmssms.db", "calllog.db", "contacts2.db", "History",
    "WifiConfigStore.xml", "packages.xml" }

\* ------------------------------------------------------------------------
\* The inner archive (tarfile), scaled down: a member is
\*   <<name id, type flag, size>> \o data
\* and a zero byte ends the archive.  The name id indexes MemberNames; the
\* type flag is the ustar one ('0' = 48 regular file, '5' = 53 directory,
\* '2' = 50 symbolic link).
\* ------------------------------------------------------------------------

\* Member names, each with what the locator asks of it: name.endswith('.db'),
\* 'History' in name, and which of the words the locator looks for occur in
\* name.lower().
MemberNames ==
  << [ name |-> "apps/com.android.providers.telephony/db/mmssms.db",
       endsDb |-> TRUE,  hasHistory |-> FALSE, lower |-> {"sms", "mms"} ],
     [ name |-> "apps/com.android.mms/db/mmssms.db",
       endsDb |-> TRUE,  hasHistory |-> FALSE, lower |-> {"sms", "mms"} ],
     [ name |-> "apps/com.android.providers.contacts/db/calllog.db",
       endsDb |-> TRUE,  hasHistory |-> FALSE, lower |-> {"call", "contacts"} ],
     [ name |-> "apps/com.android.providers.contacts/db/contacts2.db",
       endsDb |-> TRUE,  hasHistory |-> FALSE, lower |-> {"contacts"} ],
     [ name |-> "apps/com.android.chrome/f/app_chrome/Default/History",
       endsDb |-> FALSE, hasHistory |-> TRUE,  lower |-> {"chrome", "history"} ],
     [ name |-> "apps/com.android.chrome/r/app_chrome/Default/History",
       endsDb |-> FALSE, hasHistory |-> TRUE,  lower |-> {"chrome", "history"} ],
     [ name |-> "apps/com.android.providers.contacts/db/profile.db",
       endsDb |-> TRUE,  hasHistory |-> FALSE, lower |-> {"contacts"} ],
     [ name |-> "apps/com.android.providers.contacts/_manifest",
       endsDb |-> FALSE, hasHistory |-> FALSE, lower |-> {"contacts"} ] >>

TarMember(id, flag, data) == <<id, flag, Len(data)>> \o data

\* The members read from position pos on; reading stops at the end marker,
\* at the end of the data and at a header that is not one.
RECURSIVE tar_members(_, _)
tar_members(bytes, pos) ==
  IF pos + 3 > Len(bytes) THEN <<>>
  ELSE LET id == bytes[pos + 1]
           flag == bytes[pos + 2]
           size == bytes[pos + 3]
       IN  IF id \notin 1..Len(MemberNames) \/ flag \notin {48, 50, 53}
              \/ pos + 3 + size > Len(bytes)
           THEN <<>>
           ELSE << [ name |-> MemberNames[id].name, id |-> id, flag |-> flag,
                     data |-> Read(bytes, pos + 3, size) ] >>
                \o tar_members(bytes, pos + 3 + size)

\* tarfile.open(path, 'r'): ReadError for an empty file and for data whose
\* first block is neither a header nor the end marker.
tar_open(bytes) ==
  IF bytes = <<>> THEN [ok |-> FALSE, members |-> <<>>]
  ELSE IF bytes[1] = 0 THEN [ok |-> TRUE, members |-> <<>>]
  ELSE LET ms == tar_members(bytes, 0)
       IN  IF ms = <<>> THEN [ok |-> FALSE, members |-> <<>>]
           ELSE [ok |-> TRUE, members |-> ms]

\* tar.getmember(name): the last member of that name, 0 for KeyError.
getmember(members, name) ==
  LET hits == { i \in 1..Len(members) : members[i].name = name }
  IN  IF hits = {} THEN 0 ELSE CHOOSE i \in hits : \A j \in hits : j <= i


\* ------------------------------------------------------------------------
\* parse_backup_file
\* ------------------------------------------------------------------------

\* The literal the magic is compared with, b"ANDROID BACKUP\n": 15 bytes.
MAGIC == <<65, 78, 68, 82, 79, 73, 68, 32, 66, 65, 67, 75, 85, 80, 10>>

\* The number of bytes read as the magic: f.read(24).
MAGIC_LEN == 24

\* f.read(4) for the version and for the compression flag.
FIELD_LEN == 4

\* magic != b"ANDROID BACKUP\n": bytes objects are equal when they have the
\* same length and the same bytes.
MagicMismatch(magic) == magic # MAGIC

\* What the read of the container yields: the three header fields and the
\* rest, each read where the one before stopped.
ReadContainer(data) ==
  LET magic == Read(data, 0, MAGIC_LEN)
      p1 == Len(magic)
      vbytes == Read(data, p1, FIELD_LEN)
      p2 == p1 + Len(vbytes)
      cbytes == Read(data, p2, FIELD_LEN)
      p3 == p2 + Len(cbytes)
  IN  [ magic |-> magic,
        version |-> from_bytes_little(vbytes),
        compression |-> from_bytes_little(cbytes),
        tar_data |-> ReadRest(data, p3) ]

\* The payload after "Decompress if needed": inflated for flag 1, as it is
\* for every other flag.
DecodePayload(compression, tar_data) ==
  IF compression = 1 THEN zlib_decompress(tar_data)
  ELSE [ok |-> TRUE, data |-> tar_data, err |-> ""]

\* parse_backup_file writing what follows the header fields to backup.tar
\* before it looks at the magic.
parse_backup_file_WriteFirst(files, backup_file) ==
  IF ~Exists(files, backup_file)
  THEN [ ok |-> FALSE, msg |-> "Backup file does not exist", path |-> "",
         version |-> 0, compression |-> 0, files |-> files ]
  ELSE LET c == ReadContainer(files[backup_file])
           written == [files EXCEPT ![TarFile] = c.tar_data]
       IN  IF MagicMismatch(c.magic)
           THEN [ ok |-> FALSE,
                  msg |-> "Invalid backup file format (wrong magic string)",
                  path |-> "", version |-> 0, compression |-> 0,
                  files |-> written ]
           ELSE [ ok |-> TRUE, msg |-> "Backup parsed successfully",
                  path |-> TarFile, version |-> c.version,
                  compression |-> c.compression, files |-> written ]

\* parse_backup_file(backup_file) on the evidence directory files:
\* (success, message, extracted_tar_path) and the directory afterwards.
parse_backup_file(files, backup_file) ==
  LET Fail(m) == [ ok |-> FALSE, msg |-> m, path |-> "", version |-> 0,
                   compression |-> 0, files |-> files ]
  IN
  IF ~Exists(files, backup_file) THEN Fail("Backup file does not exist")
  ELSE LET c == ReadContainer(files[backup_file])
       IN  IF MagicMismatch(c.magic)
           THEN Fail("Invalid backup file format (wrong magic string)")
           ELSE LET d == DecodePayload(c.compression, c.tar_data)
                IN  IF ~d.ok THEN Fail("Failed to decompress backup")
                    ELSE [ ok |-> TRUE, msg |-> "Backup parsed successfully",
                           path |-> TarFile, version |-> c.version,
                           compression |-> c.compression,
                           files |-> [files EXCEPT ![TarFile] = d.data] ]

\* ------------------------------------------------------------------------
\* extract_from_backup
\* ------------------------------------------------------------------------

\* tar.extract(member, extract_dir) followed by extracted_file.exists():
\* a regular file exists afterwards, so does a directory; a symbolic link
\* whose target is missing does not.
ExistsAfterExtract(member) == member.flag \in {48, 53}

\* shutil.copy2(extracted_file, local_path) raises for a directory.
CopyRaises(member) == member.flag = 53

\* The words of the second pass, the same list for every data type.
HeuristicKeywords == {"sms", "mms", "call", "chrome", "history"}

\* The test of the second pass on one member.
HeuristicMatch(member, data_type) ==
  LET n == MemberNames[member.id]
  IN  /\ n.endsDb \/ n.hasHistory
      /\ data_type \in n.lower \/ n.lower \cap HeuristicKeywords # {}

\* First pass from candidate i on.  kind "hit": member m was copied;
\* "raise": an exception left the loop; "end": the loop ran out, with found
\* telling whether some candidate was a member of the archive.
RECURSIVE FirstPass(_, _, _, _)
FirstPass(members, paths, i, found) ==
  IF i > Len(paths) THEN [kind |-> "end", found |-> found, m |-> 0]
  ELSE LET m == getmember(members, paths[i])
       IN  IF m = 0 THEN FirstPass(members, paths, i + 1, found)
           ELSE IF ~ExistsAfterExtract(members[m])
                THEN FirstPass(members, paths, i + 1, TRUE)
           ELSE IF CopyRaises(members[m])
                THEN [kind |-> "raise", found |-> TRUE, m |-> m]
           ELSE [kind |-> "hit", found |-> TRUE, m |-> m]

\* Second pass from member i on.
RECURSIVE SecondPass(_, _, _)
SecondPass(members, data_type, i) ==
  IF i > Len(members) THEN [kind |-> "end", m |-> 0]
  ELSE IF HeuristicMatch(members[i], data_type)
       THEN IF ~ExistsAfterExtract(members[i])
            THEN SecondPass(members, data_type, i + 1)
            ELSE IF CopyRaises(members[i]) THEN [kind |-> "raise", m |-> i]
            ELSE [kind |-> "hit", m |-> i]
       ELSE SecondPass(members, data_type, i + 1)

\* extract_from_backup(tar_path, data_type, local_name) on the evidence
\* directory files.  returns is "triple" for a (success, message, local_path)
\* result and "none" when the function falls off its end and returns None;
\* member is the name id of the member that was copied, 0 when none was.
extract_from_backup(files, tar_path, data_type, local_name) ==
  LET Ret(r, o, m, p, f, id) ==
        [ returns |-> r, ok |-> o, msg |-> m, path |-> p, files |-> f,
          member |-> id ]
      Raised ==
        Ret("triple", FALSE, "Error extracting from backup", "None", files, 0)
      Copied(member, m) ==
        Ret("triple", TRUE, m, local_name,
            [files EXCEPT ![local_name] = member.data], member.id)
  IN
  IF ~Exists(files, tar_path) THEN Raised
  ELSE LET tar == tar_open(files[tar_path])
       IN  IF ~tar.ok THEN Raised
           ELSE LET p1 == FirstPass(tar.members, BACKUP_PATHS[data_type], 1, FALSE)
                IN  CASE p1.kind = "hit" ->
                           Copied(tar.members[p1.m], "Extracted from backup")
                      [] p1.kind = "raise" -> Raised
                      [] p1.kind = "end" /\ p1.found ->
                           Ret("none", FALSE, "", "None", files, 0)
                      [] OTHER ->
                           LET p2 == SecondPass(tar.members, data_type, 1)
                           IN  CASE p2.kind = "hit" ->
                                      Copied(tar.members[p2.m],
                                             "Extracted from backup (found)")
                                 [] p2.kind = "raise" -> Raised
                                 [] OTHER ->
                                      Ret("triple", FALSE,
                                          "Database not found in backup", "None",
                                          files, 0)


\* ------------------------------------------------------------------------
\* Inputs: file contents
\* ------------------------------------------------------------------------

\* A database file, scaled down: the byte 83 ('S' of "SQLite format 3")
\* followed by one <<table id, row count>> pair per table.
DbBytes(pairs) == <<83>> \o pairs

\* Table ids of the scaled-down database file.
TableNames == << "sms", "calls", "contacts", "raw_contacts", "urls", "android_metadata" >>

SmsDb == DbBytes(<<1, 2, 6, 1>>)
ContactsDb == DbBytes(<<3, 1, 4, 1>>)
ContactsDbNoRaw == DbBytes(<<3, 1>>)
HistoryDb == DbBytes(<<5, 3>>)
NotADb == <<60, 63>>

\* Inner archives.
ArchSms == TarMember(1, 48, SmsDb) \o <<0>>
ArchContactsHistory ==
  TarMember(4, 48, ContactsDbNoRaw) \o TarMember(6, 48, HistoryDb) \o <<0>>
ArchDangling == TarMember(1, 50, <<>>) \o TarMember(8, 48, NotADb) \o <<0>>
ArchNoMembers == <<0>>
ArchGarbage == <<255, 1>>

Archives == { ArchSms, ArchContactsHistory, ArchDangling, ArchNoMembers, ArchGarbage }

\* 24-byte headers that begin with the literal: the literal padded with zero
\* bytes, and the header `adb backup` writes, "ANDROID BACKUP\n1\n1\nnone\n".
HeaderPadded == MAGIC \o <<0, 0, 0, 0, 0, 0, 0, 0, 0>>
HeaderText == MAGIC \o <<49, 10, 49, 10, 110, 111, 110, 101, 10>>
HeaderWrong == <<66>> \o Tail(HeaderPadded)

Headers == { HeaderPadded, HeaderText, HeaderWrong }

\* Payloads stored under compression flag 1: deflated archives, one cut
\* short, one with a damaged checksum.
Deflated ==
  { zlib_compress0(a) : a \in {ArchSms, ArchNoMembers} }
    \cup { SubSeq(zlib_compress0(ArchSms), 1, 12),
           SubSeq(zlib_compress0(ArchNoMembers), 1, 11) \o <<9>> }

Payloads(flag) == IF flag = 1 THEN Deflated ELSE {ArchSms, ArchContactsHistory, ArchGarbage, <<>>}

Versions == {1, 5}
Flags == {0, 1, 2}

Container(header, version, flag, payload) ==
  header \o to_bytes_little4(version) \o to_bytes_little4(flag) \o payload

\* Files shorter than a header: empty, the bare literal, the literal cut
\* short, the literal and one more byte.
ShortFiles == { <<>>, MAGIC, SubSeq(MAGIC, 1, 14), MAGIC \o <<0>> }

Containers ==
  { Container(h, v, c, p) : h \in Headers, v \in Versions, c \in Flags,
                            p \in Payloads(0) \cup Payloads(1) }
    \cup ShortFiles

DataTypes == {"sms", "calls", "contacts", "chrome"}

\* local_name of each entry of extraction_tasks
LocalName ==
  [ sms |-> "mmssms.db", calls |-> "calllog.db", contacts |-> "contacts2.db",
    chrome |-> "History", wifi |-> "WifiConfigStore.xml",
    packages |-> "packages.xml" ]

\* ------------------------------------------------------------------------
\* Transport probe, privilege negotiator, direct puller
\* ------------------------------------------------------------------------

\* What `adb version` can do: exit 0, exit non-zero, not be found, or fail
\* otherwise (the 5 s timeout included).
AdbOutcomes == {"ok", "nonzero", "notfound", "error"}

\* check_adb_available(): (ok, message)
check_adb_available(outcome) ==
  CASE outcome = "ok" -> [ok |-> TRUE, msg |-> "ADB is available"]
    [] outcome = "nonzero" -> [ok |-> FALSE, msg |-> "ADB returned error"]
    [] outcome = "notfound" -> [ok |-> FALSE, msg |-> "ADB not found in PATH"]
    [] OTHER -> [ok |-> FALSE, msg |-> "Error checking ADB"]

\* The lines `adb devices` can print, by what the check asks of a line:
\* whether line.strip() is non-empty and whether 'device' occurs in it.
\*   header        "List of devices attached"
\*   daemon        "* daemon not running; starting now at tcp:5037"
\*   ready         "<serial>\tdevice"
\*   unauthorized  "<serial>\tunauthorized"
\*   offline       "<serial>\toffline"
LineHasDevice(line) == line \in {"header", "ready"}

\* Outputs of `adb devices` after stdout.strip().split('\n'); "raise" is
\* the command failing to run or timing out, "nonzero" a non-zero exit.
DeviceListings ==
  { <<"header">>,
    <<"header", "ready">>,
    <<"header", "unauthorized">>,
    <<"header", "offline", "ready">>,
    <<"daemon", "daemon", "header">>,
    <<"raise">>,
    <<"nonzero">> }

\* devices = [line for line in lines[1:] if line.strip() and 'device' in line]
RECURSIVE DeviceLines(_)
DeviceLines(lines) ==
  IF lines = <<>> THEN <<>>
  ELSE (IF LineHasDevice(lines[1]) THEN <<lines[1]>> ELSE <<>>)
         \o DeviceLines(Tail(lines))

\* check_device_connected(): (ok, message)
check_device_connected(listing) ==
  IF listing = <<"raise">> THEN [ok |-> FALSE, msg |-> "Error checking device"]
  ELSE IF listing = <<"nonzero">>
       THEN [ok |-> FALSE, msg |-> "Failed to run ADB devices command"]
  ELSE IF DeviceLines(Tail(listing)) = <<>>
       THEN [ok |-> FALSE, msg |-> "No Android device detected"]
  ELSE [ok |-> TRUE, msg |-> "Device connected"]

\* What the two commands of enable_root can do: `adb root` raises (timeout
\* included) or returns; then `adb shell su -c id` prints uid=0, prints
\* something else, or raises.
RootOutcomes == {"root_raises", "uid0", "not_uid0", "check_raises"}

\* enable_root(): (ok, message) and the transport commands it issued.
enable_root(outcome) ==
  CASE outcome = "uid0" ->
         [ok |-> TRUE, msg |-> "Root access enabled", cmds |-> <<"root", "shell">>]
    [] outcome = "not_uid0" ->
         [ok |-> FALSE, msg |-> "Root access not available", cmds |-> <<"root", "shell">>]
    [] outcome = "check_raises" ->
         [ok |-> FALSE, msg |-> "Error enabling root", cmds |-> <<"root", "shell">>]
    [] OTHER ->
         [ok |-> FALSE, msg |-> "Error enabling root", cmds |-> <<"root">>]

\* What `adb pull` can do: exit 0 (kind "pulled", data being what it wrote
\* to the destination, possibly nothing at all: NoFile), exit non-zero,
\* time out, or fail otherwise.
PullFailures == { [kind |-> k, data |-> <<>>] : k \in {"nonzero", "timeout", "error"} }

\* extract_database accepting an empty destination file.
extract_database_NoSizeCheck(files, local_name, o) ==
  LET after == IF o.kind = "pulled" /\ o.data # NoFile
               THEN [files EXCEPT ![local_name] = o.data]
               ELSE files
      Ret(k, m, p) == [ok |-> k, msg |-> m, path |-> p, files |-> after]
  IN
  CASE o.kind = "timeout" -> Ret(FALSE, "Timeout while extracting", "None")
    [] o.kind = "error" -> Ret(FALSE, "Error extracting", "None")
    [] o.kind = "pulled" /\ Exists(after, local_name) ->
         Ret(TRUE, "Successfully extracted", local_name)
    [] OTHER -> Ret(FALSE, "Failed to extract", "None")

\* extract_database(remote_path, local_name) under pull outcome o:
\* (success, message, local_path) and the evidence directory afterwards.
extract_database(files, local_name, o) ==
  LET after == IF o.kind = "pulled" /\ o.data # NoFile
               THEN [files EXCEPT ![local_name] = o.data]
               ELSE files
      Ret(k, m, p) == [ok |-> k, msg |-> m, path |-> p, files |-> after]
  IN
  CASE o.kind = "timeout" -> Ret(FALSE, "Timeout while extracting", "None")
    [] o.kind = "error" -> Ret(FALSE, "Error extracting", "None")
    [] o.kind = "pulled" /\ Exists(after, local_name) ->
         IF Len(after[local_name]) > 0
         THEN Ret(TRUE, "Successfully extracted", local_name)
         ELSE Ret(FALSE, "Extracted file is empty", "None")
    [] OTHER -> Ret(FALSE, "Failed to extract", "None")

\* ------------------------------------------------------------------------
\* Verification and hashing
\* ------------------------------------------------------------------------

\* The <<table id, row count>> pairs of a scaled-down database file as a
\* function from table name to row count.
RECURSIVE TablesOf(_)
TablesOf(pairs) ==
  IF Len(pairs) < 2 THEN << >>
  ELSE (TableNames[pairs[1]] :> pairs[2]) @@ TablesOf(Tail(Tail(pairs)))

\* sqlite3 on a file: an empty file is a database without tables; a file
\* that does not start as a database file raises sqlite3.DatabaseError.
IsDatabase(bytes) == bytes = <<>> \/ bytes[1] = 83

\* TablesPresent asking for one expected table only.
TablesPresent_Any(tables, expected_tables) ==
  \E t \in expected_tables : t \in tables

\* "tables_present": all(table in tables for table in expected_tables)
TablesPresent(tables, expected_tables) ==
  \A t \in expected_tables : t \in tables

\* verify_database(db_path, expected_tables): (is_valid, details)
verify_database(files, db_path, expected_tables) ==
  LET Err(e) == [ is_valid |-> FALSE,
                  verification |-> [error |-> e, tables_present |-> FALSE,
                                    row_counts |-> << >>] ]
  IN
  IF ~Exists(files, db_path) THEN Err("File does not exist")
  ELSE IF ~IsDatabase(files[db_path]) THEN Err("Database error")
  ELSE LET tables == TablesOf(ReadRest(files[db_path], 1))
           present == TablesPresent(DOMAIN tables, expected_tables)
       IN  [ is_valid |-> present,
             verification |->
               [ error |-> "", tables_present |-> present,
                 row_counts |-> [t \in expected_tables |->
                                   IF t \in DOMAIN tables THEN tables[t] ELSE 0] ] ]

\* The existence-only record of an XML artifact.
XmlVerification ==
  [ is_valid |-> TRUE,
    verification |-> [error |-> "", tables_present |-> TRUE, row_counts |-> << >>] ]

\* calculate_hash(file_path): the digest of the file (a checksum stands for
\* MD5), or the string "Error: ..." when reading fails.
calculate_hash(files, file_path, io_error) ==
  IF io_error \/ ~Exists(files, file_path) THEN [kind |-> "error", digest |-> 0]
  ELSE [kind |-> "md5", digest |-> adler32(files[file_path])]

\* ------------------------------------------------------------------------
\* Remediation instruction lists
\* ------------------------------------------------------------------------

_get_adb_fix_instructions(is_windows) ==
  IF is_windows
  THEN << "1. Download Android Platform Tools", "2. Extract the zip file",
          "3. Add the platform-tools folder to your system PATH",
          "4. Or place adb.exe in the same folder", "5. Restart this application" >>
  ELSE << "1. Install ADB using your package manager:", "- Ubuntu/Debian",
          "- Fedora", "- Arch", "2. Or download from", "3. Make sure ADB is in your PATH",
          "4. Restart this application" >>

_get_device_fix_instructions ==
  << "1. Connect your Android device", "2. On your Android device:",
     "- Go to Settings > About Phone", "- Tap 'Build Number' 7 times",
     "- Go to Settings > System > Developer Options", "- Enable 'USB Debugging'",
     "3. When prompted on your device, allow USB debugging",
     "4. Make sure you're using a data cable", "5. Try a different USB port",
     "6. On some devices, select 'File Transfer' mode" >>

\* f"1. The {data_type} database may not exist on this device"
ExtractionFixFirst ==
  [ sms |-> "1. The sms database may not exist on this device",
    calls |-> "1. The calls database may not exist on this device",
    contacts |-> "1. The contacts database may not exist on this device",
    chrome |-> "1. The chrome database may not exist on this device",
    wifi |-> "1. The wifi database may not exist on this device",
    packages |-> "1. The packages database may not exist on this device" ]

_get_extraction_fix_instructions(data_type) ==
  << ExtractionFixFirst[data_type],
     "2. Make sure the device is rooted", "3. Try running: adb root",
     "4. Verify the app is installed", "5. Some devices may have different database paths",
     "6. Check if the data exists", "7. For non-rooted devices, use 'Extract via Backup'" >>

\* Defined by the class and called nowhere.
_get_backup_fix_instructions(data_type) ==
  << "1. Make sure you approved the backup", "2. The backup prompt appears on your device",
     "3. If no prompt appeared, the app may not support backup",
     BACKUP_PACKAGES[data_type],
     "5. Some apps may not allow backup", "6. Try unlocking your device screen",
     "7. Make sure USB debugging is enabled", "8. If backup fails, root the device" >>

\* An entry of results["errors"] or results["warnings"]; fix is the value of
\* its "fix_instructions" key, <<>> when the entry has no such key.
Entry(step, data_type, msg, fix) ==
  [step |-> step, data_type |-> data_type, msg |-> msg, fix |-> fix]

\* ------------------------------------------------------------------------
\* Backup orchestrator
\* ------------------------------------------------------------------------

\* if file_size > 24
HEADER_SIZE == 24

\* What `adb backup` can write to the destination.
BackupReal == HeaderText \o zlib_compress0(ArchSms)
BackupLayout == Container(HeaderPadded, 1, 0, ArchSms)
BackupOutputs ==
  { BackupReal, BackupLayout, <<>>, MAGIC, HeaderText, HeaderText \o <<0>> }

\* What the backup command can do: "completed" within the 120 s, "timeout",
\* or "raise" (the process cannot be started); written is what it wrote to
\* the destination, NoFile when it wrote nothing.
BackupOutcomes ==
  { [kind |-> k, written |-> w] :
      k \in {"completed", "timeout"}, w \in BackupOutputs \cup {NoFile} }
    \cup { [kind |-> "raise", written |-> NoFile] }

\* A progress event: the step (in tenths, 145 for step 14.5) and the
\* percentage.
Event(step10, pct) == [step |-> step10, pct |-> pct]

\* The two events create_backup hands to progress_callback.
CreateBackupEvents == << Event(0, 0), Event(0, 10) >>

\* The size test with "at least" in place of "larger than".
BackupLargeEnough_Inclusive(size) == size >= HEADER_SIZE

\* The size test on the destination after the command completed.
BackupLargeEnough(size) == size > HEADER_SIZE

\* create_backup without the timeout on the wait: the destination is
\* looked at whenever the command was started.
create_backup_NoTimeout(files, backup_file, o) ==
  LET after == IF o.written # NoFile THEN [files EXCEPT ![backup_file] = o.written]
               ELSE files
      Ret(k, m, killed) ==
        [ok |-> k, msg |-> m, killed |-> killed, files |-> after]
  IN
  CASE o.kind = "raise" -> Ret(FALSE, "Error creating backup", FALSE)
    [] OTHER ->
         IF Exists(after, backup_file)
         THEN IF BackupLargeEnough(Len(after[backup_file]))
              THEN Ret(TRUE, "Backup created successfully", FALSE)
              ELSE Ret(FALSE, "Backup file is too small", FALSE)
         ELSE Ret(FALSE, "Backup failed", FALSE)

\* create_backup(package_name, backup_file, progress_callback) under
\* outcome o: (success, message), whether the process was killed, and the
\* evidence directory afterwards.
create_backup(files, backup_file, o) ==
  LET after == IF o.written # NoFile THEN [files EXCEPT ![backup_file] = o.written]
               ELSE files
      Ret(k, m, killed) ==
        [ok |-> k, msg |-> m, killed |-> killed, files |-> after]
  IN
  CASE o.kind = "raise" -> Ret(FALSE, "Error creating backup", FALSE)
    [] o.kind = "timeout" -> Ret(FALSE, "Backup timed out", TRUE)
    [] OTHER ->
         IF Exists(after, backup_file)
         THEN IF BackupLargeEnough(Len(after[backup_file]))
              THEN Ret(TRUE, "Backup created successfully", FALSE)
              ELSE Ret(FALSE, "Backup file is too small", FALSE)
         ELSE Ret(FALSE, "Backup failed", FALSE)

\* ------------------------------------------------------------------------
\* Supplemental collectors
\* ------------------------------------------------------------------------

SHARED_PATHS == << "/sdcard/DCIM/", "/sdcard/Download/", "/sdcard/Documents/",
                   "/sdcard/Pictures/" >>

\* def extract_shared_storage(self, limit: int = 5)
SHARED_LIMIT == 5

\* One storage root as the harvester meets it: ls is what the listability
\* check does ("ok", "nonzero", "raise", or "hang": the check is run without
\* a timeout), find what the listing does ("ok", "nonzero", "raise"), and
\* lines the paths the listing prints (numbers stand for paths).
Root(ls, find, lines) == [ls |-> ls, find |-> find, lines |-> lines]

SharedScenarios ==
  { << Root("nonzero", "ok", <<>>), Root("nonzero", "ok", <<>>),
       Root("nonzero", "ok", <<>>), Root("nonzero", "ok", <<>>) >>,
    << Root("ok", "ok", <<1, 2>>), Root("ok", "raise", <<>>),
       Root("nonzero", "ok", <<>>), Root("ok", "ok", <<2, 3>>) >>,
    << Root("ok", "ok", <<1, 2, 3>>), Root("ok", "ok", <<3, 4, 5>>),
       Root("ok", "ok", <<6>>), Root("ok", "ok", <<7>>) >>,
    << Root("ok", "nonzero", <<>>), Root("raise", "ok", <<>>),
       Root("ok", "ok", <<1>>), Root("ok", "ok", <<2>>) >>,
    << Root("ok", "ok", <<1>>), Root("hang", "ok", <<>>),
       Root("ok", "ok", <<2>>), Root("ok", "ok", <<3>>) >> }

\* What the pull of one accumulated file does: "ok", "nonzero" (a non-zero
\* exit, which subprocess.run does not raise for), "raise" (the transport
\* cannot be run, a timeout, a directory that cannot be made).
PullKinds == {"ok", "nonzero", "raise"}

\* The outcomes of the pulls of one call, by position in the accumulated
\* list: all succeed, or one of them does not.
PullScenarios ==
  { [k \in 1..SHARED_LIMIT |-> "ok"] }
    \cup { [k \in 1..SHARED_LIMIT |-> IF k = j THEN o ELSE "ok"] :
             j \in 1..SHARED_LIMIT, o \in {"nonzero", "raise"} }

\* The inner loop over the lines of one listing without the membership
\* test: every line is appended and counted.
RECURSIVE AddPaths_NoDedup(_, _, _)
AddPaths_NoDedup(files_to_pull, count, lines) ==
  IF lines = <<>> THEN [files_to_pull |-> files_to_pull, count |-> count]
  ELSE AddPaths_NoDedup(Append(files_to_pull, lines[1]), count + 1, Tail(lines))

\* The inner loop over the lines of one listing: a path not yet in
\* files_to_pull is appended and counted.
RECURSIVE AddPaths(_, _, _)
AddPaths(files_to_pull, count, lines) ==
  IF lines = <<>> THEN [files_to_pull |-> files_to_pull, count |-> count]
  ELSE IF \E i \in 1..Len(files_to_pull) : files_to_pull[i] = lines[1]
       THEN AddPaths(files_to_pull, count, Tail(lines))
       ELSE AddPaths(Append(files_to_pull, lines[1]), count + 1, Tail(lines))

\* The loop over SHARED_PATHS from root i on: how it ends ("done", "raise",
\* "hang"), the paths accumulated, the count kept beside them, the
\* transport commands issued, and, for every root whose listability check
\* was run, its index and the count at that moment.
RECURSIVE ScanRoots(_, _, _, _, _, _, _)
ScanRoots(roots, i, files_to_pull, count, cmds, checked, limit) ==
  LET Out(e, c, ch) ==
        [ end |-> e, files_to_pull |-> files_to_pull, count |-> count,
          cmds |-> c, checked |-> ch ]
  IN
  IF i > Len(roots) \/ count >= limit THEN Out("done", cmds, checked)
  ELSE LET r == roots[i]
           ch == Append(checked, [root |-> i, count |-> count])
       IN  CASE r.ls = "hang" -> Out("hang", Append(cmds, "shell"), ch)
             [] r.ls = "raise" -> Out("raise", Append(cmds, "shell"), ch)
             [] r.ls = "nonzero" ->
                  ScanRoots(roots, i + 1, files_to_pull, count,
                            Append(cmds, "shell"), ch, limit)
             [] OTHER ->
                  LET acc == IF r.find = "ok"
                             THEN AddPaths(files_to_pull, count,
                                           Read(r.lines, 0, limit - count))
                             ELSE [files_to_pull |-> files_to_pull, count |-> count]
                  IN  ScanRoots(roots, i + 1, acc.files_to_pull, acc.count,
                                cmds \o <<"shell", "shell">>, ch, limit)

\* The loop over files_to_pull from position k on without the try around
\* the pull: the first pull that raises ends the loop.
RECURSIVE PullFiles_AbortOnRaise(_, _, _)
PullFiles_AbortOnRaise(files_to_pull, pulls, k) ==
  IF k > Len(files_to_pull) THEN <<>>
  ELSE IF pulls[k] = "raise" THEN <<files_to_pull[k]>>
       ELSE <<files_to_pull[k]>> \o PullFiles_AbortOnRaise(files_to_pull, pulls, k + 1)

\* The loop over files_to_pull from position k on: the paths a pull was
\* run for, in order.  What a pull does is caught or not looked at.
RECURSIVE PullFiles(_, _, _)
PullFiles(files_to_pull, pulls, k) ==
  IF k > Len(files_to_pull) THEN <<>>
  ELSE <<files_to_pull[k]>> \o PullFiles(files_to_pull, pulls, k + 1)

\* extract_shared_storage(limit): the result record, whether the call
\* returns at all, the transport commands issued, and what the two loops
\* did (scan, and pulled: the paths a pull was run for).
extract_shared_storage(roots, limit, pulls) ==
  LET scan == ScanRoots(roots, 1, <<>>, 0, <<>>, <<>>, limit)
      pulled == PullFiles(scan.files_to_pull, pulls, 1)
  IN  CASE scan.end = "hang" ->
             [ hung |-> TRUE, success |-> FALSE, file_count |-> 0,
               cmds |-> scan.cmds, scan |-> scan, pulled |-> <<>> ]
        [] scan.end = "raise" ->
             [ hung |-> FALSE, success |-> FALSE, file_count |-> 0,
               cmds |-> scan.cmds, scan |-> scan, pulled |-> <<>> ]
        [] OTHER ->
             [ hung |-> FALSE, success |-> TRUE, file_count |-> scan.count,
               cmds |-> scan.cmds \o [k \in 1..Len(pulled) |-> "pull"],
               scan |-> scan, pulled |-> pulled ]

\* The commands table of extract_system_dump has six entries, the queries
\* table of extract_content_query five.
SYSTEM_DUMP_COMMANDS == 6
CONTENT_QUERIES == 5

\* extract_system_dump() when command number raise_at raises (a timeout
\* included), 0 when none does: the exception ends the loop.
extract_system_dump(raise_at) ==
  IF raise_at = 0
  THEN [success |-> TRUE, ran |-> SYSTEM_DUMP_COMMANDS,
        cmds |-> [k \in 1..SYSTEM_DUMP_COMMANDS |-> "shell"]]
  ELSE [success |-> FALSE, ran |-> raise_at - 1,
        cmds |-> [k \in 1..raise_at |-> "shell"]]

\* extract_content_query() when the commands in raising raise: each is
\* caught inside the loop.
extract_content_query(raising) ==
  [success |-> TRUE, attempted |-> CONTENT_QUERIES,
   cmds |-> [k \in 1..CONTENT_QUERIES |-> "shell"]]

\* What one shell command of a collector does: it completes ("done") with
\* an exit code and the text of its two streams ("" for none), or running
\* it raises ("raise": the transport cannot be run, or the timeout passed).
Command(kind, rc, stdout, stderr) ==
  [kind |-> kind, rc |-> rc, stdout |-> stdout, stderr |-> stderr]

CommandOutcomes ==
  { Command("done", 0, "out", ""), Command("done", 0, "out", "err"),
    Command("done", 0, "", ""), Command("done", 1, "out", "err"),
    Command("done", 1, "out", ""), Command("done", 1, "", "err"),
    Command("raise", 0, "", "") }

\* The outcomes of the n commands of one call: all complete cleanly, or
\* one of them does something else.
CommandScenarios(n) ==
  { [k \in 1..n |-> IF k = j THEN o ELSE Command("done", 0, "out", "")] :
      j \in 1..n, o \in CommandOutcomes }

\* f.write(text): the pieces of text a file holds, none for the empty text.
Written(text) == IF text = "" THEN <<>> ELSE <<text>>

\* A command of a table the loop did not get to.
NotStarted == [started |-> FALSE, created |-> FALSE, text |-> <<>>]

\* One iteration of the loop of extract_system_dump: the file is opened,
\* the command run and its stdout written.
DumpCommand(o) ==
  [ started |-> TRUE, created |-> TRUE,
    text |-> IF o.kind = "done" THEN Written(o.stdout) ELSE <<>> ]

\* The loop of extract_system_dump from command k on, one entry per command
\* of the table: a command that raises ends the loop.
RECURSIVE DumpLoop(_, _)
DumpLoop(outs, k) ==
  IF k > Len(outs) THEN <<>>
  ELSE IF outs[k].kind = "raise"
       THEN <<DumpCommand(outs[k])>> \o [j \in 1..(Len(outs) - k) |-> NotStarted]
       ELSE <<DumpCommand(outs[k])>> \o DumpLoop(outs, k + 1)

\* The number of the first command that raises, 0 when none does.
RaiseAt(outs) ==
  LET raising == { k \in 1..Len(outs) : outs[k].kind = "raise" }
  IN  IF raising = {} THEN 0 ELSE CHOOSE k \in raising : \A j \in raising : k <= j

\* One iteration of the loop of extract_content_query: the command is run
\* and the file written from its result, or from the exception.
QueryCommand(o) ==
  [ started |-> TRUE, created |-> TRUE,
    text |-> IF o.kind = "raise" THEN <<"exception">>
             ELSE IF o.rc = 0 /\ o.stdout # "" THEN <<o.stdout>>
             ELSE IF o.stderr # "" THEN <<"ERROR: ", o.stderr>>
             ELSE <<>> ]

\* The loop of extract_content_query, one entry per query of the table.
QueryLoop(outs) == [k \in 1..Len(outs) |-> QueryCommand(outs[k])]

\* ------------------------------------------------------------------------
\* State
\* ------------------------------------------------------------------------

VARIABLES
  fs,        \* the evidence directory: file name -> bytes, or NoFile
  calls,     \* ParserSpec: the parser and locator calls made, with results
  strategy,  \* "none", "direct" (extract_all_data), "backup" (extract_via_backup)
  pc,        \* where the run is
  idx,       \* the loop variable idx of the direct strategy's task loop
  results,   \* the result record under construction
  adb_ok,    \* the local adb_ok of the run: "unset", "yes", "no"
  device_ok, \* the local device_ok of the run: "unset", "yes", "no"
  root_ok,   \* the local root_ok of extract_all_data
  progress,  \* the events delivered to progress_callback, in order
  cmds,      \* the transport subcommands issued, in order
  attempted, \* the data types whose acquisition was attempted, in order
  check_device_btn,   \* state of the button "Check Device Connection"
  extract_btn,        \* state of the button "Extract All Data (Root)"
  extract_backup_btn, \* state of the button "Extract via Backup (Non-Root)"
  threads,   \* the worker threads alive, counted by what they run
  after      \* the callbacks scheduled with root.after(0, ...), in order

vars ==
  << fs, calls, strategy, pc, idx, results, adb_ok, device_ok, root_ok, progress,
     cmds, attempted, check_device_btn, extract_btn, extract_backup_btn,
     threads, after >>

guiVars == << check_device_btn, extract_btn, extract_backup_btn, threads, after >>

runVars ==
  << strategy, pc, idx, results, adb_ok, device_ok, root_ok, progress, cmds,
     attempted >>

EmptyDir == [n \in FileNames |-> NoFile]

\* The result record both strategies start from.  root_available is "unset"
\* while the record has no such key; method is "backup" in
\* extract_via_backup and absent ("none") in extract_all_data.
NewResults(method) ==
  [ success |-> FALSE, extracted_files |-> << >>, verification_results |-> << >>,
    errors |-> <<>>, warnings |-> <<>>, method |-> method,
    root_available |-> "unset" ]

\* The window as setup_ui builds it: the check button is enabled, the two
\* acquisition buttons are not; no worker thread, nothing scheduled.
GuiIdle ==
  /\ check_device_btn = "normal"
  /\ extract_btn = "disabled"
  /\ extract_backup_btn = "disabled"
  /\ threads = [check |-> 0, extract |-> 0, backup |-> 0]
  /\ after = <<>>

\* No run has been started.
RunIdle ==
  /\ strategy = "none"
  /\ pc = "idle"
  /\ idx = 0
  /\ results = NewResults("none")
  /\ adb_ok = "unset"
  /\ device_ok = "unset"
  /\ root_ok = FALSE
  /\ progress = <<>>
  /\ cmds = <<>>
  /\ attempted = <<>>
  /\ GuiIdle

\* ------------------------------------------------------------------------
\* ParserSpec: calls of parse_backup_file and extract_from_backup on an
\* evidence directory holding a container and, possibly, an inner archive.
\* ------------------------------------------------------------------------

ParserInit ==
  /\ \E c \in Containers \cup {NoFile}, a \in Archives \cup {NoFile} :
       fs = [EmptyDir EXCEPT ![BackupFile] = c, ![TarFile] = a]
  /\ calls = <<>>
  /\ RunIdle

ParseCall ==
  /\ Len(calls) < MaxCalls
  /\ LET r == parse_backup_file(fs, BackupFile)
     IN  /\ fs' = r.files
         /\ calls' = Append(calls,
              [ op |-> "parse", data_type |-> "", returns |-> "triple",
                ok |-> r.ok, msg |-> r.msg, path |-> r.path,
                before |-> fs[TarFile], member |-> 0 ])
  /\ UNCHANGED <<runVars, guiVars>>

ExtractCall(t) ==
  /\ Len(calls) < MaxCalls
  /\ LET r == extract_from_backup(fs, TarFile, t, LocalName[t])
     IN  /\ fs' = r.files
         /\ calls' = Append(calls,
              [ op |-> "extract", data_type |-> t, returns |-> r.returns,
                ok |-> r.ok, msg |-> r.msg, path |-> r.path,
                before |-> fs[TarFile], member |-> r.member ])
  /\ UNCHANGED <<runVars, guiVars>>

ParserNext ==
  \/ ParseCall
  \/ \E t \in DataTypes : ExtractCall(t)

ParserSpec == ParserInit /\ [][ParserNext]_vars


\* ------------------------------------------------------------------------
\* UnitSpec: calls of extract_database and verify_database on an evidence
\* directory in which the destination file may already exist, and calls of
\* check_device_connected.
\* ------------------------------------------------------------------------

\* The file the calls of UnitSpec work on.
UnitFile == "contacts2.db"

\* What the destination can hold before a call.
UnitFiles == { NoFile, <<>>, ContactsDb, ContactsDbNoRaw, DbBytes(<<4, 2, 6, 1>>), NotADb }

\* What a pull can do to the destination.
UnitPullOutcomes ==
  PullFailures
    \cup { [kind |-> "pulled", data |-> d] :
             d \in {NoFile, <<>>, ContactsDb, ContactsDbNoRaw, NotADb} }

\* expected_tables arguments: those of the two strategies for contacts, and
\* lists naming a table no contacts database has.
UnitExpected ==
  { {"contacts"}, {"contacts", "raw_contacts"}, {"contacts", "urls"},
    {"raw_contacts", "urls"}, {} }

UnitInit ==
  /\ \E f \in UnitFiles : fs = [EmptyDir EXCEPT ![UnitFile] = f]
  /\ calls = <<>>
  /\ RunIdle

\* extract_database(remote_path, "contacts2.db")
PullCall ==
  /\ Len(calls) < MaxCalls
  /\ \E o \in UnitPullOutcomes :
       LET r == extract_database(fs, UnitFile, o)
       IN  /\ fs' = r.files
           /\ calls' = Append(calls,
                [ op |-> "pull", kind |-> o.kind, ok |-> r.ok, msg |-> r.msg,
                  path |-> r.path, dest |-> r.files[UnitFile] ])
  /\ UNCHANGED <<runVars, guiVars>>

\* verify_database("contacts2.db", expected_tables)
VerifyCall ==
  /\ Len(calls) < MaxCalls
  /\ \E e \in UnitExpected :
       LET r == verify_database(fs, UnitFile, e)
       IN  calls' = Append(calls,
             [ op |-> "verify", expected |-> e, is_valid |-> r.is_valid,
               verification |-> r.verification, dest |-> fs[UnitFile] ])
  /\ UNCHANGED <<fs, runVars, guiVars>>

\* check_device_connected()
DeviceCheckCall ==
  /\ Len(calls) < MaxCalls
  /\ \E listing \in DeviceListings :
       LET r == check_device_connected(listing)
       IN  calls' = Append(calls,
             [ op |-> "check_device", listing |-> listing, ok |-> r.ok,
               msg |-> r.msg ])
  /\ UNCHANGED <<fs, runVars, guiVars>>

UnitNext ==
  \/ PullCall
  \/ VerifyCall
  \/ DeviceCheckCall

UnitSpec == UnitInit /\ [][UnitNext]_vars


\* ------------------------------------------------------------------------
\* CollectorSpec: calls of the three supplemental collectors,
\* extract_shared_storage, extract_system_dump and extract_content_query.
\* ------------------------------------------------------------------------

\* Collector calls made in one behaviour.
MaxCollectorCalls == 1

\* limit arguments: a small one and the default.
HarvestLimits == {2, SHARED_LIMIT}

CollectorInit ==
  /\ fs = EmptyDir
  /\ calls = <<>>
  /\ RunIdle

\* extract_shared_storage(limit)
SharedStorageCall ==
  /\ Len(calls) < MaxCollectorCalls
  /\ \E roots \in SharedScenarios, limit \in HarvestLimits, pulls \in PullScenarios :
       LET r == extract_shared_storage(roots, limit, pulls)
       IN  calls' = Append(calls,
             [ op |-> "shared_storage", roots |-> roots, limit |-> limit,
               pulls |-> pulls, hung |-> r.hung, success |-> r.success,
               file_count |-> r.file_count, end |-> r.scan.end,
               files_to_pull |-> r.scan.files_to_pull, count |-> r.scan.count,
               checked |-> r.scan.checked, pulled |-> r.pulled ])
  /\ UNCHANGED <<fs, runVars, guiVars>>

\* extract_system_dump()
SystemDumpCall ==
  /\ Len(calls) < MaxCollectorCalls
  /\ \E outs \in CommandScenarios(SYSTEM_DUMP_COMMANDS) :
       LET r == extract_system_dump(RaiseAt(outs))
       IN  calls' = Append(calls,
             [ op |-> "system_dump", outs |-> outs, success |-> r.success,
               count |-> r.ran, files |-> DumpLoop(outs, 1) ])
  /\ UNCHANGED <<fs, runVars, guiVars>>

\* extract_content_query()
ContentQueryCall ==
  /\ Len(calls) < MaxCollectorCalls
  /\ \E outs \in CommandScenarios(CONTENT_QUERIES) :
       LET r == extract_content_query({ k \in 1..Len(outs) : outs[k].kind = "raise" })
       IN  calls' = Append(calls,
             [ op |-> "content_query", outs |-> outs, success |-> r.success,
               count |-> r.attempted, files |-> QueryLoop(outs) ])
  /\ UNCHANGED <<fs, runVars, guiVars>>

CollectorNext ==
  \/ SharedStorageCall
  \/ SystemDumpCall
  \/ ContentQueryCall

CollectorSpec == CollectorInit /\ [][CollectorNext]_vars


\* ------------------------------------------------------------------------
\* Spec: one run of extract_all_data or of extract_via_backup on an
\* evidence directory that may hold the container of an earlier run.
\* ------------------------------------------------------------------------

\* I/O errors of calculate_hash in one run.
MaxHashFaults == 1

\* What an earlier run can have left as combined_backup.ab.
StaleContainers == { NoFile, BackupReal }

Init ==
  /\ \E c \in StaleContainers : fs = [EmptyDir EXCEPT ![BackupFile] = c]
  /\ calls = <<>>
  /\ RunIdle

\* A call of a strategy: the result record and the locals are set up.
Start(s) ==
  /\ pc = "idle"
  /\ strategy' = s
  /\ results' = NewResults(IF s = "backup" THEN "backup" ELSE "none")
  /\ pc' = "adb"
  /\ UNCHANGED <<fs, calls, idx, adb_ok, device_ok, root_ok, progress, cmds, attempted, guiVars>>

\* AfterCheck without the `return results` of a failed check.
AfterCheck_NoReturn(ok, next) == next

\* Where a run goes after the transport check and after the device check:
\* on, or out with `return results`.
AfterCheck(ok, next) == IF ok THEN next ELSE "done"

\* results["errors"].append(...)
AddError(res, e) == [res EXCEPT !.errors = Append(@, e)]

\* results["warnings"].append(...)
AddWarning(res, w) == [res EXCEPT !.warnings = Append(@, w)]

\* FinalSuccess as an all-or-nothing rule: success only without errors.
FinalSuccess_NoErrors(res) ==
  IF DOMAIN res.extracted_files # {} /\ res.errors = <<>>
  THEN [res EXCEPT !.success = TRUE] ELSE res

\* if results["extracted_files"]: results["success"] = True
FinalSuccess(res) ==
  IF DOMAIN res.extracted_files # {} THEN [res EXCEPT !.success = TRUE] ELSE res

\* The percentages the two strategies give to their first two steps.
AdbPercent(s) == IF s = "direct" THEN 10 ELSE 5
DevicePercent(s) == IF s = "direct" THEN 20 ELSE 10

\* Step 1 of both strategies: check ADB.
CheckAdb ==
  /\ pc = "adb"
  /\ \E o \in AdbOutcomes, is_windows \in BOOLEAN :
       LET r == check_adb_available(o)
       IN  /\ results' = IF r.ok THEN results
                         ELSE AddError(results,
                                Entry("ADB Check", "", r.msg,
                                      _get_adb_fix_instructions(is_windows)))
           /\ adb_ok' = IF r.ok THEN "yes" ELSE "no"
           /\ pc' = AfterCheck(r.ok, "device")
  /\ progress' = Append(progress, Event(10, AdbPercent(strategy)))
  /\ cmds' = Append(cmds, "version")
  /\ UNCHANGED <<fs, calls, strategy, idx, device_ok, root_ok, attempted, guiVars>>

\* Step 2 of both strategies: check the device.
CheckDevice ==
  /\ pc = "device"
  /\ \E listing \in DeviceListings :
       LET r == check_device_connected(listing)
       IN  /\ results' = IF r.ok THEN results
                         ELSE AddError(results,
                                Entry("Device Check", "", r.msg,
                                      _get_device_fix_instructions))
           /\ device_ok' = IF r.ok THEN "yes" ELSE "no"
           /\ pc' = AfterCheck(r.ok, IF strategy = "direct" THEN "root" ELSE "backup")
  /\ progress' = Append(progress, Event(20, DevicePercent(strategy)))
  /\ cmds' = Append(cmds, "devices")
  /\ UNCHANGED <<fs, calls, strategy, idx, adb_ok, root_ok, attempted, guiVars>>

\* ------------------------------------------------------------------------
\* extract_all_data
\* ------------------------------------------------------------------------

\* Step 3: enable root.
EnableRoot ==
  /\ pc = "root"
  /\ \E o \in RootOutcomes :
       LET r == enable_root(o)
       IN  /\ root_ok' = r.ok
           /\ results' =
                IF r.ok THEN [results EXCEPT !.root_available = "yes"]
                ELSE [AddWarning(results, Entry("Root Access", "", r.msg, <<>>))
                        EXCEPT !.root_available = "no"]
           /\ cmds' = cmds \o r.cmds
  /\ progress' = Append(progress, Event(30, 30))
  /\ pc' = "task"
  /\ idx' = 4
  /\ UNCHANGED <<fs, calls, strategy, adb_ok, device_ok, attempted, guiVars>>

\* extraction_tasks of extract_all_data
DirectTasks ==
  << [data_type |-> "sms", local_name |-> "mmssms.db", expected_tables |-> {"sms"}],
     [data_type |-> "calls", local_name |-> "calllog.db", expected_tables |-> {"calls"}],
     [data_type |-> "contacts", local_name |-> "contacts2.db",
      expected_tables |-> {"contacts"}],
     [data_type |-> "chrome", local_name |-> "History", expected_tables |-> {"urls"}],
     [data_type |-> "wifi", local_name |-> "WifiConfigStore.xml", expected_tables |-> {}],
     [data_type |-> "packages", local_name |-> "packages.xml", expected_tables |-> {}] >>

\* enumerate(extraction_tasks, start=4)
DIRECT_START == 4

\* local_name.endswith('.xml')
IsXml(local_name) == local_name \in {"WifiConfigStore.xml", "packages.xml"}

\* What a pull of one of the data type's paths can bring.
PulledData ==
  [ sms |-> {SmsDb, NotADb, <<>>},
    calls |-> {DbBytes(<<2, 4>>)},
    contacts |-> {ContactsDb, DbBytes(<<4, 1>>)},
    chrome |-> {HistoryDb},
    wifi |-> {NotADb},
    packages |-> {NotADb} ]

PullOutcomes(data_type) ==
  PullFailures \cup { [kind |-> "pulled", data |-> d] : d \in PulledData[data_type] }

\* 30 + (idx * 10), and the + 5 of the verification sub-step
TaskPercent(i) == 30 + (i * 10)
VerifyPercent(i) == 30 + (i * 10) + 5

\* One pull of the loop as the log of a run keeps it: the candidate's
\* index in the declared list and whether extract_database succeeded.
PullLog(i, r) == [index |-> i, ok |-> r.ok]

\* TryPaths without the `break`: every candidate is pulled and the last one
\* that succeeded is kept.
RECURSIVE TryPaths_LastWins(_, _, _, _)
TryPaths_LastWins(files, local_name, outs, i) ==
  IF i > Len(outs) THEN [hit |-> 0, tried |-> i - 1, files |-> files, log |-> <<>>]
  ELSE LET r == extract_database(files, local_name, outs[i])
           rest == TryPaths_LastWins(r.files, local_name, outs, i + 1)
       IN  [rest EXCEPT !.hit = IF @ = 0 /\ r.ok THEN i ELSE @,
                        !.log = <<PullLog(i, r)>> \o @]

\* for remote_path in self.DATABASE_PATHS[data_type]: the pulls from
\* candidate i on, outs[i] being what the pull of candidate i does.  hit is
\* the candidate that succeeded (0: none), tried the number of pulls made,
\* log the pulls made, in order.
RECURSIVE TryPaths(_, _, _, _)
TryPaths(files, local_name, outs, i) ==
  IF i > Len(outs) THEN [hit |-> 0, tried |-> i - 1, files |-> files, log |-> <<>>]
  ELSE LET r == extract_database(files, local_name, outs[i])
       IN  IF r.ok THEN [hit |-> i, tried |-> i, files |-> r.files,
                         log |-> <<PullLog(i, r)>>]
           ELSE LET rest == TryPaths(r.files, local_name, outs, i + 1)
                IN  [rest EXCEPT !.log = <<PullLog(i, r)>> \o @]

\* The calls of extract_database one task made, as the run's call log keeps
\* them: the data type, the device path asked for and whether the call
\* returned success.
PullCalls(data_type, paths, log) ==
  [ k \in 1..Len(log) |->
      [ op |-> "pull", data_type |-> data_type,
        remote_path |-> paths[log[k].index], ok |-> log[k].ok ] ]

\* NotExtractedEntry recording an error whether or not root was available.
NotExtractedEntry_AlwaysError(res, rootok, data_type) ==
  AddError(res, Entry("Extraction", data_type,
                      "Failed to extract from all known locations",
                      _get_extraction_fix_instructions(data_type)))

\* NotExtractedEntry with the error recorded for every data type that was
\* not pulled, beside the warning when root is not available.
NotExtractedEntry_WarningAndError(res, rootok, data_type) ==
  LET e == Entry("Extraction", data_type,
                 "Failed to extract from all known locations",
                 _get_extraction_fix_instructions(data_type))
  IN  IF ~rootok
      THEN AddError(AddWarning(res, Entry("Extraction", data_type,
                                         "Root extraction failed", <<>>)), e)
      ELSE AddError(res, e)

\* The entry a data type gets when none of its paths could be pulled.
NotExtractedEntry(res, rootok, data_type) ==
  IF ~rootok
  THEN AddWarning(res, Entry("Extraction", data_type, "Root extraction failed", <<>>))
  ELSE AddError(res, Entry("Extraction", data_type,
                           "Failed to extract from all known locations",
                           _get_extraction_fix_instructions(data_type)))

\* An entry of results["extracted_files"].
FileInfo(path, remote_path) ==
  [ path |-> path, remote_path |-> remote_path,
    hash |-> [kind |-> "unset", digest |-> 0], file_count |-> 0 ]

\* AfterTask leaving the loop at the first data type that was not pulled.
AfterTask_StopOnFailure(i, hit) ==
  IF hit = 0 THEN "hash"
  ELSE IF i - DIRECT_START + 1 < Len(DirectTasks) THEN "task" ELSE "hash"

\* Where the task loop goes after the task at index i, whether one of its
\* paths was pulled (hit # 0) or none was (hit = 0).
AfterTask(i, hit) == IF i - DIRECT_START + 1 < Len(DirectTasks) THEN "task" ELSE "hash"

\* Steps 4-6: one iteration of the loop over extraction_tasks.
ExtractTask ==
  /\ pc = "task"
  /\ LET task == DirectTasks[idx - DIRECT_START + 1]
         t == task.data_type
         paths == DATABASE_PATHS[t]
     IN  \E outs \in [1..Len(paths) -> PullOutcomes(t)] :
           LET tp == TryPaths(fs, task.local_name, outs, 1)
               v == IF IsXml(task.local_name) THEN XmlVerification
                    ELSE verify_database(tp.files, task.local_name, task.expected_tables)
               got == [results EXCEPT
                         !.extracted_files =
                            (t :> FileInfo(task.local_name, paths[tp.hit])) @@ @,
                         !.verification_results = (t :> v.verification) @@ @]
           IN  /\ fs' = tp.files
               /\ cmds' = cmds \o [k \in 1..tp.tried |-> "pull"]
               /\ IF tp.hit # 0
                  THEN /\ results' =
                            IF v.is_valid THEN got
                            ELSE AddWarning(got, Entry("Verification", t,
                                                       "Database verification issues", <<>>))
                       /\ progress' = progress \o
                            << Event(idx * 10, TaskPercent(idx)),
                               Event(idx * 10 + 5, VerifyPercent(idx)) >>
                  ELSE /\ results' = NotExtractedEntry(results, root_ok, t)
                       /\ progress' = Append(progress, Event(idx * 10, TaskPercent(idx)))
               /\ attempted' = Append(attempted, t)
               /\ calls' = calls \o PullCalls(t, paths, tp.log)
               /\ pc' = AfterTask(idx, tp.hit)
  /\ idx' = idx + 1
  /\ UNCHANGED <<strategy, adb_ok, device_ok, root_ok, guiVars>>

\* file_info["hash"] = self.calculate_hash(file_path) for every entry of
\* extracted_files; reading fails for the data types in faults.
HashAll(res, files, faults) ==
  LET ef == res.extracted_files
  IN  [res EXCEPT !.extracted_files =
         [t \in DOMAIN ef |->
            [ef[t] EXCEPT !.hash = calculate_hash(files, ef[t].path, t \in faults)]]]

\* Step 7: calculate hashes.
DirectHashes ==
  /\ pc = "hash"
  /\ strategy = "direct"
  /\ \E faults \in SUBSET (DOMAIN results.extracted_files) :
       /\ Cardinality(faults) <= MaxHashFaults
       /\ results' = HashAll(results, fs, faults)
  /\ progress' = Append(progress, Event(80, 80))
  /\ pc' = "final"
  /\ UNCHANGED <<fs, calls, strategy, adb_ok, device_ok, idx, root_ok, cmds, attempted, guiVars>>

\* Step 8: final verification, and the return.
DirectFinish ==
  /\ pc = "final"
  /\ strategy = "direct"
  /\ results' = FinalSuccess(results)
  /\ progress' = progress \o << Event(90, 90), Event(100, 100) >>
  /\ pc' = "done"
  /\ UNCHANGED <<fs, calls, strategy, adb_ok, device_ok, idx, root_ok, cmds, attempted, guiVars>>

\* ------------------------------------------------------------------------
\* extract_via_backup
\* ------------------------------------------------------------------------

\* extraction_tasks of extract_via_backup
BackupTasks ==
  << [data_type |-> "sms", local_name |-> "mmssms.db", expected_tables |-> {"sms"}],
     [data_type |-> "calls", local_name |-> "calllog.db", expected_tables |-> {"calls"}],
     [data_type |-> "contacts", local_name |-> "contacts2.db",
      expected_tables |-> {"contacts", "raw_contacts"}],
     [data_type |-> "chrome", local_name |-> "History", expected_tables |-> {"urls"}] >>

\* enumerate(extraction_tasks, start=5)
BACKUP_START == 5

\* 40 + (idx * 5)
BackupTaskPercent(i) == 40 + (i * 5)

\* The loop over extraction_tasks leaving at the first type that was not
\* extracted, after recording its error.
LookupTasks_StopOnFailure(files, tar_path, res, events, tried, k) ==
  LET task == BackupTasks[k]
      t == task.data_type
      i == k + BACKUP_START - 1
      r == extract_from_backup(files, tar_path, t, task.local_name)
  IN  [ files |-> r.files,
        results |-> IF r.ok
                    THEN [res EXCEPT
                            !.extracted_files = (t :> FileInfo(r.path, "backup")) @@ @,
                            !.verification_results =
                               (t :> verify_database(r.files, r.path,
                                                     task.expected_tables).verification) @@ @]
                    ELSE AddError(res, Entry("Extraction", t, r.msg, <<>>)),
        events |-> Append(events, Event(i * 10, BackupTaskPercent(i))),
        tried |-> Append(tried, t), crashed |-> FALSE ]

\* The loop over extraction_tasks from task k on, on the inner archive at
\* tar_path.  crashed: extract_from_backup returned None and unpacking its
\* result raised TypeError out of extract_via_backup.
RECURSIVE LookupTasks(_, _, _, _, _, _)
LookupTasks(files, tar_path, res, events, tried, k) ==
  IF k > Len(BackupTasks)
  THEN [files |-> files, results |-> res, events |-> events, tried |-> tried,
        crashed |-> FALSE]
  ELSE LET task == BackupTasks[k]
           t == task.data_type
           i == k + BACKUP_START - 1
           ev == Append(events, Event(i * 10, BackupTaskPercent(i)))
           r == extract_from_backup(files, tar_path, t, task.local_name)
       IN  IF r.returns = "none"
           THEN [files |-> r.files, results |-> res, events |-> ev,
                 tried |-> Append(tried, t), crashed |-> TRUE]
           ELSE IF r.ok
           THEN LET v == IF IsXml(task.local_name) THEN XmlVerification
                         ELSE verify_database(r.files, r.path, task.expected_tables)
                    got == [res EXCEPT
                              !.extracted_files = (t :> FileInfo(r.path, "backup")) @@ @,
                              !.verification_results = (t :> v.verification) @@ @]
                IN  LookupTasks(r.files, tar_path, got, ev, Append(tried, t), k + 1)
           ELSE LookupTasks(r.files, tar_path,
                            AddError(res, Entry("Extraction", t, r.msg, <<>>)),
                            ev, Append(tried, t), k + 1)

\* The call of create_backup as the run's call log keeps it: what the
\* command did, whether it wrote the destination, the destination
\* afterwards and what the call returned.
BackupCall(o, cb) ==
  [ op |-> "create_backup", kind |-> o.kind, wrote |-> o.written # NoFile,
    dest |-> cb.files[BackupFile], ok |-> cb.ok, msg |-> cb.msg,
    killed |-> cb.killed ]

\* Step 3: the combined backup, its parse, and the lookups in the archive.
CombinedBackup ==
  /\ pc = "backup"
  /\ \E o \in BackupOutcomes :
       LET cb == create_backup(fs, BackupFile, o)
           ev == Append(progress, Event(30, 30)) \o CreateBackupEvents
           pr == parse_backup_file(cb.files, BackupFile)
           lk == LookupTasks(pr.files, pr.path, results,
                             Append(ev, Event(40, 40)), attempted, 1)
       IN  /\ IF cb.ok
              THEN IF pr.ok
                   THEN /\ fs' = lk.files
                        /\ results' = lk.results
                        /\ progress' = lk.events
                        /\ attempted' = lk.tried
                        /\ pc' = IF lk.crashed THEN "crashed" ELSE "hash"
                   ELSE /\ fs' = pr.files
                        /\ results' = AddError(results, Entry("Backup Parse", "", pr.msg, <<>>))
                        /\ progress' = Append(ev, Event(40, 40))
                        /\ attempted' = attempted
                        /\ pc' = "hash"
              ELSE /\ fs' = cb.files
                   /\ results' = AddError(results,
                                   Entry("Combined Backup Creation", "", cb.msg, <<>>))
                   /\ progress' = ev
                   /\ attempted' = attempted
                   /\ pc' = "hash"
           /\ calls' = Append(calls, BackupCall(o, cb))
  /\ cmds' = Append(cmds, "backup")
  /\ UNCHANGED <<strategy, adb_ok, device_ok, idx, root_ok, guiVars>>

\* Calculate hashes (of what the lookups acquired).
BackupHashes ==
  /\ pc = "hash"
  /\ strategy = "backup"
  /\ \E faults \in SUBSET (DOMAIN results.extracted_files) :
       /\ Cardinality(faults) <= MaxHashFaults
       /\ results' = HashAll(results, fs, faults)
  /\ progress' = Append(progress, Event(130, 85))
  /\ pc' = "shared"
  /\ UNCHANGED <<fs, calls, strategy, adb_ok, device_ok, idx, root_ok, cmds, attempted, guiVars>>

\* An entry of extracted_files for a collector's result record.
CollectorInfo(path, n) ==
  [ path |-> path, remote_path |-> "", hash |-> [kind |-> "unset", digest |-> 0],
    file_count |-> n ]

\* Extract shared storage.
SharedStorage ==
  /\ pc = "shared"
  /\ \E roots \in SharedScenarios, pulls \in PullScenarios :
       LET r == extract_shared_storage(roots, SHARED_LIMIT, pulls)
       IN  /\ cmds' = cmds \o r.cmds
           /\ pc' = IF r.hung THEN "hung" ELSE "sysdump"
           /\ results' =
                IF r.success
                THEN AddWarning(
                       [results EXCEPT !.extracted_files =
                          ("shared_storage" :> CollectorInfo("shared_storage", r.file_count))
                            @@ @],
                       Entry("Shared Storage", "", "Extracted files from shared storage", <<>>))
                ELSE results
  /\ progress' = Append(progress, Event(140, 90))
  /\ UNCHANGED <<fs, calls, strategy, adb_ok, device_ok, idx, root_ok, attempted, guiVars>>

\* The call of a shell dump collector as the run's call log keeps it: the
\* "success" of the record it returned and the count in its message.
CollectorCall(op, success, count) ==
  [op |-> op, success |-> success, count |-> count]

\* System dump.
SystemDump ==
  /\ pc = "sysdump"
  /\ \E raise_at \in 0..SYSTEM_DUMP_COMMANDS :
       LET r == extract_system_dump(raise_at)
       IN  /\ cmds' = cmds \o r.cmds
           /\ results' =
                IF r.success
                THEN [results EXCEPT !.extracted_files =
                        ("system_dump" :> CollectorInfo("system_dump", r.ran)) @@ @]
                ELSE results
           /\ calls' = Append(calls, CollectorCall("system_dump", r.success, r.ran))
  /\ progress' = Append(progress, Event(145, 95))
  /\ pc' = "query"
  /\ UNCHANGED <<fs, strategy, adb_ok, device_ok, idx, root_ok, attempted, guiVars>>

\* Content query, the final success flag, and the return.
ContentQuery ==
  /\ pc = "query"
  /\ \E raising \in SUBSET (1..CONTENT_QUERIES) :
       LET r == extract_content_query(raising)
       IN  /\ cmds' = cmds \o r.cmds
           /\ results' =
                FinalSuccess(
                  IF r.success
                  THEN [results EXCEPT !.extracted_files =
                          ("content_query" :> CollectorInfo("content_query", r.attempted))
                            @@ @]
                  ELSE results)
           /\ calls' = Append(calls,
                CollectorCall("content_query", r.success, r.attempted))
  /\ progress' = progress \o << Event(148, 98), Event(150, 100) >>
  /\ pc' = "done"
  /\ UNCHANGED <<fs, strategy, adb_ok, device_ok, idx, root_ok, attempted, guiVars>>

Next ==
  \/ Start("direct")
  \/ Start("backup")
  \/ CheckAdb
  \/ CheckDevice
  \/ EnableRoot
  \/ ExtractTask
  \/ DirectHashes
  \/ DirectFinish
  \/ CombinedBackup
  \/ BackupHashes
  \/ SharedStorage
  \/ SystemDump
  \/ ContentQuery

Spec == Init /\ [][Next]_vars

\* The scheduling of a run: a strategy is sequential code, so a run that
\* has been started takes its next step as long as it has one.
RunStep ==
  \/ CheckAdb
  \/ CheckDevice
  \/ EnableRoot
  \/ ExtractTask
  \/ DirectHashes
  \/ DirectFinish
  \/ CombinedBackup
  \/ BackupHashes
  \/ SharedStorage
  \/ SystemDump
  \/ ContentQuery

FairSpec == Spec /\ WF_vars(RunStep)


\* ------------------------------------------------------------------------
\* Properties of the acquisition runs (Spec, FairSpec)
\* ------------------------------------------------------------------------

Returned == pc = "done"

ChecksPassed == device_ok = "yes"

CheckFailed == adb_ok = "no" \/ device_ok = "no"

Extracted == DOMAIN results.extracted_files

Percents == [i \in 1..Len(progress) |-> progress[i].pct]

\* C1: in both strategies the returned result record has success = true
\* if and only if its extracted_files map is non-empty.
C1_SuccessIffExtracted ==
  Returned => (results.success <=> Extracted # {})

\* A direct run that returned with exactly one artifact acquired, every
\* other data type having failed with an error.
C1_Witness ==
  /\ Returned
  /\ strategy = "direct"
  /\ Cardinality(Extracted) = 1
  /\ Len(results.errors) = 5
  /\ results.success

\* C2: when the transport check or the device check fails the run is over
\* at once: one error, no warning, nothing extracted, success = false, and
\* no transport command after the one of the failed check.
C2_FailedCheckEndsRun ==
  CheckFailed =>
    /\ Returned
    /\ Len(results.errors) = 1
    /\ results.warnings = <<>>
    /\ Extracted = {}
    /\ ~results.success
    /\ cmds = IF adb_ok = "no" THEN <<"version">> ELSE <<"version", "devices">>

\* A backup run that ended at the device check.
C2_Witness ==
  /\ strategy = "backup"
  /\ device_ok = "no"
  /\ Returned

SixTypes == << "sms", "calls", "contacts", "chrome", "wifi", "packages" >>

\* The steps after the checks, by the events they emit: the direct
\* strategy's hashing and final steps, the backup strategy's backup,
\* hashing and three collectors.
StepsTaken(steps) ==
  \A st \in steps : \E i \in 1..Len(progress) : progress[i].step = st

C4_EveryErrorHasFix ==
  \A i \in 1..Len(results.errors) : results.errors[i].fix # <<>>

\* C5: within one run the percentages delivered to the progress observer
\* never decrease.
C5_ProgressMonotone ==
  \A i \in 1..Len(progress) - 1 : progress[i].pct <= progress[i + 1].pct

\* C6: a percentage of 100 (or more) is delivered only as the last event of
\* a run that reaches DONE after both checks passed.
C6_HundredOnlyAtDone ==
  \A i \in 1..Len(progress) :
    progress[i].pct >= 100 =>
      /\ Returned
      /\ ChecksPassed
      /\ i = Len(progress)


\* ------------------------------------------------------------------------
\* Properties of the container parser and the locator (ParserSpec)
\* ------------------------------------------------------------------------

\* The signature of the container layout: the literal "ANDROID BACKUP\n"
\* padded to 24 bytes.
Signature24 == HeaderPadded

\* The container parse_backup_file was called on, by the layout: magic at
\* offset 0, version at 24, compression flag at 28, payload from 32.
LayoutMagic(c) == Read(c, 0, MAGIC_LEN)
LayoutVersion(c) == from_bytes_little(Read(c, MAGIC_LEN, FIELD_LEN))
LayoutFlag(c) == from_bytes_little(Read(c, MAGIC_LEN + FIELD_LEN, FIELD_LEN))
LayoutPayload(c) == ReadRest(c, MAGIC_LEN + 2 * FIELD_LEN)
HasHeader(c) == c # NoFile /\ Len(c) >= MAGIC_LEN + 2 * FIELD_LEN

ParseCalls == { i \in 1..Len(calls) : calls[i].op = "parse" }

\* C7: parse_backup_file on an existing file whose first 24 bytes differ
\* from the 24-byte signature fails with the magic-mismatch message.
C7_MismatchAlwaysFails ==
  \A i \in ParseCalls :
    (Exists(fs, BackupFile) /\ LayoutMagic(fs[BackupFile]) # Signature24) =>
      /\ ~calls[i].ok
      /\ calls[i].msg = "Invalid backup file format (wrong magic string)"

\* The container of the end-to-end scenario: valid magic, version 1, flag 0,
\* an archive holding a non-empty member at the first sms candidate path.
SmsContainer == Container(Signature24, 1, 0, ArchSms)

\* C8: on that container parse_backup_file succeeds, and extract_from_backup
\* for sms then succeeds and produces a local file equal to the member.
C8_EndToEnd ==
  \A i \in ParseCalls :
    fs[BackupFile] = SmsContainer =>
      /\ calls[i].ok
      /\ (i + 1 = Len(calls) /\ calls[i + 1].op = "extract"
            /\ calls[i + 1].data_type = "sms") =>
           /\ calls[i + 1].ok
           /\ fs["mmssms.db"] = SmsDb

\* A well-formed container: the signature, a version, flag 0 or 1, and a
\* payload that for flag 1 is a deflate stream.
WellFormed(c) ==
  /\ HasHeader(c)
  /\ LayoutMagic(c) = Signature24
  /\ LayoutFlag(c) \in {0, 1}
  /\ LayoutFlag(c) = 1 => zlib_decompress(LayoutPayload(c)).ok

\* The decoded payload encoded again under the container's flag.
Reencode(data, flag) == IF flag = 1 THEN zlib_compress0(data) ELSE data

\* C9: on every well-formed container parse_backup_file succeeds and the
\* inner archive it persists, encoded again under the container's flag, is
\* the container's payload.
C9_RoundTrip ==
  \A i \in ParseCalls :
    WellFormed(fs[BackupFile]) =>
      /\ calls[i].ok
      /\ i = Len(calls) =>
           Reencode(fs[TarFile], LayoutFlag(fs[BackupFile]))
             = LayoutPayload(fs[BackupFile])

\* C10: on a container whose compression flag is neither 0 nor 1
\* parse_backup_file fails with the unsupported-compression failure and
\* leaves the inner archive file as it was.
C10_UnsupportedFlagFails ==
  \A i \in ParseCalls :
    ( /\ HasHeader(fs[BackupFile])
      /\ LayoutMagic(fs[BackupFile]) = Signature24
      /\ LayoutFlag(fs[BackupFile]) \notin {0, 1} ) =>
      /\ ~calls[i].ok
      /\ calls[i].msg = "Unsupported compression"
      /\ i = Len(calls) => fs[TarFile] = calls[i].before

\* C11: on a container with the signature, compression flag 1 and a payload
\* that is no complete deflate stream, parse_backup_file fails with the
\* decompression failure and leaves the inner archive file as it was.
C11_CorruptDeflateFails ==
  \A i \in ParseCalls :
    ( /\ HasHeader(fs[BackupFile])
      /\ LayoutMagic(fs[BackupFile]) = Signature24
      /\ LayoutFlag(fs[BackupFile]) = 1
      /\ ~zlib_decompress(LayoutPayload(fs[BackupFile])).ok ) =>
      /\ ~calls[i].ok
      /\ calls[i].msg = "Failed to decompress backup"
      /\ i = Len(calls) => fs[TarFile] = calls[i].before

\* ------------------------------------------------------------------------
\* Properties of the direct puller inside a run (Spec)
\* ------------------------------------------------------------------------

\* The calls of extract_database made for data type t, in order.
PullsOf(t) ==
  SelectSeq(calls, LAMBDA c : c.op = "pull" /\ c.data_type = t)

\* The result record reports that data type t could not be acquired.
ReportedFailed(t) ==
  \/ \E i \in 1..Len(results.errors) :
       results.errors[i].step = "Extraction" /\ results.errors[i].data_type = t
  \/ \E i \in 1..Len(results.warnings) :
       results.warnings[i].step = "Extraction" /\ results.warnings[i].data_type = t

\* C12: in the direct strategy the candidate paths of each data type are
\* pulled in declared order, nothing is pulled after the first success,
\* failure is reported only after every candidate failed, and the recorded
\* remote_path is the first candidate whose pull succeeded.
C12_FirstSuccessWins ==
  \A n \in 1..Len(attempted) :
    LET t == attempted[n]
        L == PullsOf(t)
        P == DATABASE_PATHS[t]
    IN  /\ Len(L) \in 1..Len(P)
        /\ \A j \in 1..Len(L) : L[j].remote_path = P[j]
        /\ \A j \in 1..(Len(L) - 1) : ~L[j].ok
        /\ IF L[Len(L)].ok
           THEN /\ t \in Extracted
                /\ results.extracted_files[t].remote_path = P[Len(L)]
                /\ ~ReportedFailed(t)
           ELSE /\ Len(L) = Len(P)
                /\ t \notin Extracted
                /\ ReportedFailed(t)

\* The sms type acquired from its second candidate after the pull of the
\* first one failed.
C12_Witness ==
  /\ "sms" \in Extracted
  /\ Len(PullsOf("sms")) = 2
  /\ ~PullsOf("sms")[1].ok
  /\ results.extracted_files["sms"].remote_path = DATABASE_PATHS["sms"][2]

\* ------------------------------------------------------------------------
\* Properties of the direct puller and the verifier (UnitSpec)
\* ------------------------------------------------------------------------

PullCallsMade == { i \in 1..Len(calls) : calls[i].op = "pull" }

\* C13: extract_database returns success if and only if the copy command
\* exited with status 0 and the destination exists with a size above 0; on
\* success the local path is returned, on failure none; a timeout and a
\* transport error fail each with a message no other outcome gets.
C13_PullSuccessIff ==
  \A i \in PullCallsMade :
    LET c == calls[i]
    IN  /\ c.ok <=> (c.kind = "pulled" /\ c.dest # NoFile /\ Len(c.dest) > 0)
        /\ c.path = IF c.ok THEN UnitFile ELSE "None"
        /\ c.msg = "Timeout while extracting" <=> c.kind = "timeout"
        /\ c.msg = "Error extracting" <=> c.kind = "error"

\* The copy command exited with status 0 and left an empty destination
\* file: the call failed.
C13_Witness ==
  \E i \in PullCallsMade :
    /\ calls[i].kind = "pulled"
    /\ calls[i].dest = <<>>
    /\ ~calls[i].ok
    /\ calls[i].path = "None"

VerifyCallsMade ==
  { i \in 1..Len(calls) : calls[i].op = "verify" /\ calls[i].dest # NoFile
                          /\ IsDatabase(calls[i].dest) }

\* The tables of a scaled-down database file with their row counts.
TablesIn(bytes) == TablesOf(ReadRest(bytes, 1))

\* C19: on a database file verify_database reports tables_present = true
\* exactly when every expected table is among the tables of the file,
\* is_valid likewise, a row count of 0 for each expected table the file
\* lacks and the table's row count for each one it has.
C19_MissingTableReported ==
  \A i \in VerifyCallsMade :
    LET c == calls[i]
        tables == TablesIn(c.dest)
        v == c.verification
    IN  /\ v.tables_present <=> c.expected \subseteq DOMAIN tables
        /\ c.is_valid <=> v.tables_present
        /\ DOMAIN v.row_counts = c.expected
        /\ \A t \in c.expected :
             v.row_counts[t] = IF t \in DOMAIN tables THEN tables[t] ELSE 0

\* A database with the contacts table and without raw_contacts, verified
\* against both: not valid, 0 rows for raw_contacts, the rows of contacts.
C19_Witness ==
  \E i \in VerifyCallsMade :
    /\ calls[i].dest = ContactsDbNoRaw
    /\ calls[i].expected = {"contacts", "raw_contacts"}
    /\ ~calls[i].is_valid
    /\ ~calls[i].verification.tables_present
    /\ calls[i].verification.row_counts["raw_contacts"] = 0
    /\ calls[i].verification.row_counts["contacts"] = 1

\* ------------------------------------------------------------------------
\* Properties of the backup orchestrator and the collectors inside a run
\* (Spec)
\* ------------------------------------------------------------------------

BackupCallsMade == { i \in 1..Len(calls) : calls[i].op = "create_backup" }

\* C14: create_backup returns success only when the backup command
\* completed within the timeout and the destination file exists with a
\* size strictly above 24 bytes; after a completed command a missing file
\* and a file of 24 bytes or fewer yield failure.
C14_BackupSuccessNeedsPayload ==
  \A i \in BackupCallsMade :
    LET c == calls[i]
    IN  c.ok <=> ( /\ c.kind = "completed"
                   /\ c.dest # NoFile
                   /\ Len(c.dest) > 24 )

\* The command completed and left a destination of exactly 24 bytes, the
\* bare header: failure.
C14_Witness ==
  \E i \in BackupCallsMade :
    /\ calls[i].kind = "completed"
    /\ calls[i].dest # NoFile
    /\ Len(calls[i].dest) = 24
    /\ ~calls[i].ok

\* The steps of the backup strategy after the combined backup.
AfterBackup == {"hash", "shared", "sysdump", "query", "done", "hung"}

\* C15: when the backup command does not complete within its wait,
\* create_backup kills the process and returns failure with the timed-out
\* message, which no other outcome gets, whatever the destination holds;
\* the run records it as the error of the backup step and goes on with its
\* remaining steps, so that when it returns hashing and the three
\* collectors have been run.
C15_TimeoutKillsAndContinues ==
  \A i \in BackupCallsMade :
    LET c == calls[i]
    IN  /\ c.msg = "Backup timed out" <=> c.kind = "timeout"
        /\ c.killed <=> c.kind = "timeout"
        /\ c.kind = "timeout" =>
             /\ ~c.ok
             /\ \E k \in 1..Len(results.errors) :
                  /\ results.errors[k].step = "Combined Backup Creation"
                  /\ results.errors[k].msg = "Backup timed out"
             /\ pc \in AfterBackup
             /\ Returned => StepsTaken({130, 140, 145, 148, 150})

\* A run that returned after the backup command timed out although the
\* destination held more than 24 bytes.
C15_Witness ==
  /\ Returned
  /\ \E i \in BackupCallsMade :
       /\ calls[i].kind = "timeout"
       /\ calls[i].dest # NoFile
       /\ Len(calls[i].dest) > 24
       /\ calls[i].killed

CollectorCallsMade ==
  { i \in 1..Len(calls) : calls[i].op \in {"system_dump", "content_query"} }

\* C17: extract_system_dump and extract_content_query return success with
\* the number of commands attempted, whatever the single commands did.
C17_CollectorsAlwaysSucceed ==
  \A i \in CollectorCallsMade :
    /\ calls[i].success
    /\ calls[i].count = IF calls[i].op = "system_dump" THEN SYSTEM_DUMP_COMMANDS
                        ELSE CONTENT_QUERIES

\* ------------------------------------------------------------------------
\* Properties of the privilege negotiation inside a run (Spec)
\* ------------------------------------------------------------------------

\* The warnings of the result record with the given step.
WarningsOf(step) ==
  { i \in 1..Len(results.warnings) : results.warnings[i].step = step }

\* C16: in the direct strategy, once privilege elevation has failed the
\* result has root_available = false, exactly one warning for it (the
\* first one) and never an error; the task loop runs all the same, so that
\* a run that returns has attempted all six data types; and each data type
\* that could not be pulled has a warning.
C16_RootFailureIsWarning ==
  (strategy = "direct" /\ results.root_available = "no") =>
    /\ ~root_ok
    /\ WarningsOf("Root Access") = {1}
    /\ results.errors = <<>>
    /\ pc = "task" /\ idx = DIRECT_START => Len(results.warnings) = 1
    /\ Returned => attempted = SixTypes
    /\ \A n \in 1..Len(attempted) :
         attempted[n] \notin Extracted =>
           \E i \in WarningsOf("Extraction") :
             results.warnings[i].data_type = attempted[n]

\* A direct run that returned after root failed, with some data types
\* acquired and others not.
C16_Witness ==
  /\ Returned
  /\ strategy = "direct"
  /\ results.root_available = "no"
  /\ Extracted # {}
  /\ Cardinality(Extracted) < 6
  /\ Cardinality(WarningsOf("Extraction")) = 6 - Cardinality(Extracted)

\* ------------------------------------------------------------------------
\* Properties of termination and of hashing (FairSpec, Spec)
\* ------------------------------------------------------------------------

\* C18: no transport command of a run waits without a timeout, and so every
\* run that was started returns a result.
C18_EveryRunReturns ==
  /\ [](pc # "hung")
  /\ []((pc # "idle") => <>Returned)

\* C20: in every result record the hash of an acquired file is a digest,
\* never the error marker of calculate_hash.
C20_NoErrorMarkerAsHash ==
  \A t \in Extracted : results.extracted_files[t].hash.kind # "error"

\* ------------------------------------------------------------------------
\* LookupSpec: the loop over extraction_tasks of extract_via_backup on an
\* evidence directory whose backup.tar holds an inner archive, that is, the
\* branch taken when parse_backup_file has reported success.
\* ------------------------------------------------------------------------

\* Inner archives: for each data type no member, or one of a few.
LookupArchives ==
  { sms \o call \o contacts \o chrome \o <<0>> :
      sms \in { <<>>, TarMember(1, 48, SmsDb), TarMember(1, 48, NotADb) },
      call \in { <<>>, TarMember(3, 48, DbBytes(<<2, 1>>)) },
      contacts \in { <<>>, TarMember(4, 48, ContactsDb),
                     TarMember(4, 48, ContactsDbNoRaw), TarMember(4, 50, <<>>) },
      chrome \in { <<>>, TarMember(5, 48, HistoryDb), TarMember(6, 48, HistoryDb) } }

LookupInit ==
  /\ \E a \in LookupArchives : fs = [EmptyDir EXCEPT ![TarFile] = a]
  /\ calls = <<>>
  /\ RunIdle

\* The loop over the four tasks, on a fresh result record.
LookupLoop ==
  /\ pc = "idle"
  /\ LET lk == LookupTasks(fs, TarFile, NewResults("backup"), <<>>, <<>>, 1)
     IN  /\ fs' = lk.files
         /\ results' = lk.results
         /\ progress' = lk.events
         /\ attempted' = lk.tried
         /\ pc' = IF lk.crashed THEN "crashed" ELSE "hash"
  /\ strategy' = "backup"
  /\ UNCHANGED <<calls, adb_ok, device_ok, idx, root_ok, cmds, guiVars>>

LookupNext == LookupLoop

LookupSpec == LookupInit /\ [][LookupNext]_vars

\* ------------------------------------------------------------------------
\* Properties of the order of the backup strategy's steps (Spec)
\* ------------------------------------------------------------------------

\* The positions in the event sequence of the events with the given step.
EventsOf(step) == { i \in 1..Len(progress) : progress[i].step = step }

\* C21: in the backup strategy hashing starts only after the supplemental
\* collection: the hashing event (step 13) comes after the events of the
\* bulk harvest, the shell dump and the live queries (steps 14, 14.5 and
\* 14.8), and a run that returns has emitted all four.
C21_HashingAfterCollection ==
  strategy = "backup" =>
    /\ \A h \in EventsOf(130) :
         \A st \in {140, 145, 148} :
           EventsOf(st) # {} /\ \A c \in EventsOf(st) : c < h
    /\ (Returned /\ ChecksPassed) => EventsOf(130) # {}

\* ------------------------------------------------------------------------
\* Properties of the archive lookup (ParserSpec)
\* ------------------------------------------------------------------------

\* The calls of extract_from_backup that returned a member found by the
\* second pass.
HeuristicHits ==
  { i \in 1..Len(calls) :
      calls[i].op = "extract" /\ calls[i].msg = "Extracted from backup (found)" }

\* The words a member name is looked up by, for each requested type.
KeywordsOf ==
  [ sms |-> {"sms", "mms"}, calls |-> {"call"}, contacts |-> {},
    chrome |-> {"chrome", "history"} ]

\* The declared candidate paths of type t that are members of the archive.
DeclaredMembers(archive, t) ==
  { k \in 1..Len(BACKUP_PATHS[t]) :
      getmember(tar_open(archive).members, BACKUP_PATHS[t][k]) # 0 }

\* C22: the second pass of extract_from_backup runs only when no declared
\* candidate path of the requested type is a member of the archive, and the
\* member it returns has a name that contains the requested type name or a
\* keyword of the requested type; a request for one type never returns a
\* member that matches only another type's keywords.
C22_HeuristicMatchesRequestedType ==
  \A i \in HeuristicHits :
    /\ DeclaredMembers(calls[i].before, calls[i].data_type) = {}
    /\ LET n == MemberNames[calls[i].member]
       IN  /\ n.endsDb \/ n.hasHistory
           /\ \/ calls[i].data_type \in n.lower
              \/ n.lower \cap KeywordsOf[calls[i].data_type] # {}

\* C29: parse_backup_file reports success only if the payload it has
\* written to backup.tar opens as an archive: right after a successful
\* call the persisted file is one tarfile.open accepts.
C29_ParseSuccessMeansArchive ==
  (Len(calls) > 0 /\ calls[Len(calls)].op = "parse" /\ calls[Len(calls)].ok)
    => /\ Exists(fs, TarFile)
       /\ tar_open(fs[TarFile]).ok

\* C28: every progress event of either strategy, those of the extraction
\* and verification of each data type included, carries a percentage
\* between 0 and 100.
C28_PercentInRange ==
  \A i \in 1..Len(progress) : progress[i].pct \in 0..100

\* ------------------------------------------------------------------------
\* Properties of the supplemental collectors (CollectorSpec)
\* ------------------------------------------------------------------------

\* The calls of the two shell dump collectors.
DumpCalls ==
  { i \in 1..Len(calls) : calls[i].op \in {"system_dump", "content_query"} }

\* C24: in each shell dump collector every command of the table is run
\* whatever the commands before it did: a failure, transport error or
\* timeout of one command keeps no later command from being run and its
\* output file from being written.
C24_CommandsIndependent ==
  \A i \in DumpCalls :
    \A k \in 1..Len(calls[i].outs) :
      calls[i].files[k].started /\ calls[i].files[k].created

\* The pieces of text of a file.
PiecesOf(file) == { file.text[j] : j \in 1..Len(file.text) }

\* C25: for every command of the two tables that completes, the text it
\* produced on stdout and on stderr is in its output file whatever its exit
\* code was.
C25_OutputKeptWhateverExit ==
  \A i \in DumpCalls :
    \A k \in 1..Len(calls[i].outs) :
      LET o == calls[i].outs[k]
      IN  (calls[i].files[k].started /\ o.kind = "done") =>
            /\ o.stdout # "" => o.stdout \in PiecesOf(calls[i].files[k])
            /\ o.stderr # "" => o.stderr \in PiecesOf(calls[i].files[k])

\* The calls of extract_shared_storage.
HarvestCalls == { i \in 1..Len(calls) : calls[i].op = "shared_storage" }

\* No path occurs twice in the list.
NoDuplicates(list) ==
  \A j, k \in 1..Len(list) : list[j] = list[k] => j = k

\* C26: in extract_shared_storage (each listing returning at most the
\* limit - count lines asked for) the accumulated list has no duplicates,
\* its length equals the count kept beside it and does not exceed limit,
\* and a storage root is checked only while the count is below limit:
\* once it has reached limit no further root is checked or listed.
C26_HarvestBounded ==
  \A i \in HarvestCalls :
    /\ NoDuplicates(calls[i].files_to_pull)
    /\ Len(calls[i].files_to_pull) = calls[i].count
    /\ calls[i].count <= calls[i].limit
    /\ \A k \in 1..Len(calls[i].checked) :
         calls[i].checked[k].count < calls[i].limit
    /\ (calls[i].end = "done" /\ calls[i].count < calls[i].limit)
         => Len(calls[i].checked) = Len(calls[i].roots)

\* A call in which a listing repeated a path already accumulated and the
\* count reached limit with storage roots left unchecked.
C26_Witness ==
  \E i \in HarvestCalls :
    /\ calls[i].count = calls[i].limit
    /\ Len(calls[i].checked) < Len(calls[i].roots)
    /\ \E a, b \in 1..Len(calls[i].roots) :
         /\ a < b
         /\ b <= Len(calls[i].checked)
         /\ \E x \in 1..Len(calls[i].roots[a].lines),
               y \in 1..Len(calls[i].roots[b].lines) :
              calls[i].roots[a].lines[x] = calls[i].roots[b].lines[y]

\* C27: in extract_shared_storage a failure, error or timeout of the pull
\* of one accumulated file does not end the batch: a pull is run for every
\* accumulated path, once each and in order, the call returns success and
\* its file_count is the number of pulls run.
C27_PullFailureDoesNotAbort ==
  \A i \in HarvestCalls :
    calls[i].end = "done" =>
      /\ calls[i].pulled = calls[i].files_to_pull
      /\ NoDuplicates(calls[i].pulled)
      /\ calls[i].success
      /\ calls[i].file_count = Len(calls[i].pulled)

\* A call in which the pull of a file that is not the last one raised.
C27_Witness ==
  \E i \in HarvestCalls :
    /\ calls[i].end = "done"
    /\ calls[i].success
    /\ \E k \in 1..Len(calls[i].files_to_pull) :
         /\ calls[i].pulls[k] = "raise"
         /\ k < Len(calls[i].pulled)
         /\ calls[i].file_count = Len(calls[i].pulled)

\* ------------------------------------------------------------------------
\* Properties of the lookup loop (LookupSpec)
\* ------------------------------------------------------------------------

\* Neither pass has a member for type t: no declared candidate path is a
\* member of the archive and no member passes the test of the second pass.
NoMemberFor(archive, t) ==
  /\ tar_open(archive).ok
  /\ DeclaredMembers(archive, t) = {}
  /\ \A j \in 1..Len(tar_open(archive).members) :
       ~HeuristicMatch(tar_open(archive).members[j], t)

\* The error entries of the result record for type t.
ErrorsFor(t) ==
  { i \in 1..Len(results.errors) : results.errors[i].data_type = t }

VerificationFailed(t) ==
  /\ t \in DOMAIN results.verification_results
  /\ \/ results.verification_results[t].error # ""
     \/ ~results.verification_results[t].tables_present

DeviceCheckCalls == { i \in 1..Len(calls) : calls[i].op = "check_device" }

\* C32: check_device_connected reports connected only if the listing
\* starts with the header line and a line after the header carries the
\* ready state: a header-only listing, a listing with only unauthorized or
\* offline devices, and a listing whose header is not the first line are
\* reported as not connected.
C32_ConnectedNeedsReadyLine ==
  \A i \in DeviceCheckCalls :
    calls[i].ok =>
      /\ calls[i].listing[1] = "header"
      /\ \E k \in 2..Len(calls[i].listing) : calls[i].listing[k] = "ready"

\* ------------------------------------------------------------------------
\* Properties of runs on an evidence directory used before (Spec)
\* ------------------------------------------------------------------------

\* C34: create_backup reports success only if the backup command of this
\* call wrote the container: when the command exits without writing the
\* destination, a container of more than 24 bytes left by an earlier run
\* does not make the call succeed.
C34_SuccessNeedsFreshContainer ==
  \A i \in BackupCallsMade : calls[i].ok => calls[i].wrote

\* ------------------------------------------------------------------------
\* Properties of the results of the locator and the parser (ParserSpec)
\* ------------------------------------------------------------------------

ExtractCalls == { i \in 1..Len(calls) : calls[i].op = "extract" }

\* C35: every call of extract_from_backup returns a (success, message,
\* local_path) triple whose local_path is set exactly when success is true,
\* whatever the archive holds and whatever the extraction of a member does.
C35_AlwaysATriple ==
  \A i \in ExtractCalls :
    /\ calls[i].returns = "triple"
    /\ calls[i].ok <=> calls[i].path # "None"

\* ------------------------------------------------------------------------
\* Properties of the result record (Spec)
\* ------------------------------------------------------------------------

\* The warning and error entries for the extraction of type t, as pairs of
\* the list they are in and their position in it.
ExtractionEntries(t) ==
  { <<"warnings", i>> : i \in { j \in 1..Len(results.warnings) :
        /\ results.warnings[j].step = "Extraction"
        /\ results.warnings[j].data_type = t } }
    \cup
  { <<"errors", i>> : i \in { j \in 1..Len(results.errors) :
        /\ results.errors[j].step = "Extraction"
        /\ results.errors[j].data_type = t } }

\* C36: in a result record the direct strategy returns after the device
\* check passed, each of the six data types is accounted for exactly once:
\* it is a key of extracted_files, and then of verification_results, and
\* has no extraction entry, or it is no key and has exactly one warning or
\* error entry for its extraction.
C36_EachTypeAccountedOnce ==
  (strategy = "direct" /\ Returned /\ ChecksPassed) =>
    \A n \in 1..Len(SixTypes) :
      LET t == SixTypes[n]
      IN  IF t \in Extracted
          THEN /\ t \in DOMAIN results.verification_results
               /\ ExtractionEntries(t) = {}
          ELSE /\ t \notin DOMAIN results.verification_results
               /\ Cardinality(ExtractionEntries(t)) = 1

\* A direct run that returned without root, with sms acquired (hence
\* without an extraction entry) and contacts not (with its one warning).
C36_Witness ==
  /\ strategy = "direct"
  /\ Returned
  /\ ChecksPassed
  /\ ~root_ok
  /\ "sms" \in Extracted
  /\ "contacts" \notin Extracted
  /\ Cardinality(ExtractionEntries("contacts")) = 1

\* C37: a run of either strategy that returns a result with success =
\* false returns it with a non-empty errors list.
C37_FailureHasError ==
  (Returned /\ ~results.success) => results.errors # <<>>

\* The keys the three supplemental collectors put into extracted_files
\* when they return success.
CollectorKeys == {"shared_storage", "system_dump", "content_query"}

\* C38: a run of the backup strategy that passed the device check and in
\* which at least one supplemental collector returned success returns
\* success = true, whatever the backup, its parse and the lookups did and
\* whether or not its errors list is empty.
C38_CollectorSuccessIsSuccess ==
  ( /\ strategy = "backup"
    /\ Returned
    /\ ChecksPassed
    /\ \/ Extracted \cap CollectorKeys # {}
       \/ \E i \in CollectorCallsMade : calls[i].success )
    => results.success

\* A backup run that returned success although the backup command timed
\* out, with the error of the backup step in its errors list and nothing
\* but collector results acquired.
C38_Witness ==
  /\ strategy = "backup"
  /\ Returned
  /\ ChecksPassed
  /\ results.success
  /\ \E i \in BackupCallsMade : ~calls[i].ok
  /\ results.errors # <<>>
  /\ Extracted # {}
  /\ Extracted \subseteq CollectorKeys

\* ------------------------------------------------------------------------
\* Frame of a failed parse (ParserSpec, Spec)
\* ------------------------------------------------------------------------

\* C39: a call of parse_backup_file that fails returns the empty path and
\* leaves the evidence directory as it was: backup.tar is neither created
\* nor overwritten.
C39_FailedParseChangesNothing ==
  [][ ( /\ Len(calls') = Len(calls) + 1
        /\ calls'[Len(calls')].op = "parse"
        /\ ~calls'[Len(calls')].ok )
      => ( /\ calls'[Len(calls')].path = ""
           /\ fs' = fs ) ]_vars

\* A parse of a container of 16 bytes or more has failed on the magic, in
\* a directory that holds an inner archive from before, which is still
\* there.
C39_Witness ==
  /\ Len(calls) > 0
  /\ calls[Len(calls)].op = "parse"
  /\ ~calls[Len(calls)].ok
  /\ calls[Len(calls)].msg = "Invalid backup file format (wrong magic string)"
  /\ Len(fs[BackupFile]) > 24
  /\ fs[TarFile] = ArchSms
  /\ calls[Len(calls)].before = ArchSms

\* The run-level half of C39, under Spec: a backup run whose parse failed
\* makes no lookup, emits none of the lookup events and has no backup.tar.
NoLookupAfterFailedParse ==
  (strategy = "backup"
     /\ \E i \in 1..Len(results.errors) : results.errors[i].step = "Backup Parse")
    => /\ attempted = <<>>
       /\ fs[TarFile] = NoFile
       /\ \A st \in {50, 60, 70, 80} : EventsOf(st) = {}

\* ------------------------------------------------------------------------
\* parse_content_query: the parser of the content-query output files
\* ------------------------------------------------------------------------

\* The five files read, in the order of the code.
QueryFileNames == <<"sms.txt", "calls.txt", "contacts.txt", "calendar.txt",
                    "dictionary.txt">>

\* A text is a sequence of tokens.  Marker stands for "Row: <digits> ";
\* every other token is one piece between two ", " separators: k is what
\* precedes its first '=' (k = "" when the piece has no '='), v what
\* follows: "num" text that int() accepts and a timestamp can hold,
\* "huge" text that int() accepts and no timestamp can hold, "text"
\* anything else.
Marker == [k |-> "Row", v |-> ""]

QueryTextLen == 3

SmsTokens ==
  { Marker, [k |-> "date", v |-> "num"], [k |-> "date", v |-> "text"],
    [k |-> "date", v |-> "huge"], [k |-> "address", v |-> "text"],
    [k |-> "", v |-> "text"] }

\* A file is absent, holds bytes that are no UTF-8, or holds a text.
Absent == <<[k |-> "absent", v |-> ""]>>
Undecodable == <<[k |-> "undecodable", v |-> ""]>>

SmsTexts == UNION { [1..m -> SmsTokens] : m \in 0..QueryTextLen }

QueryDirs ==
  { [n \in { QueryFileNames[i] : i \in 1..Len(QueryFileNames) } |->
       CASE n = "sms.txt" -> sms
         [] n = "calls.txt" -> call
         [] n = "contacts.txt" -> contacts
         [] n = "calendar.txt" -> cal
         [] OTHER -> dict] :
      sms \in SmsTexts \cup {Absent, Undecodable},
      call \in { Absent, Undecodable,
                 <<Marker, [k |-> "number", v |-> "num"],
                   [k |-> "date", v |-> "num"]>> },
      contacts \in { Absent, <<Marker, [k |-> "", v |-> "text"], Marker>> },
      cal \in { Absent, <<Marker, [k |-> "dtstart", v |-> "text"]>>,
                <<[k |-> "title", v |-> "text"], Marker,
                  [k |-> "dtstart", v |-> "num"]>> },
      dict \in { Absent, <<>> } }

\* re.findall(r'Row: \d+ (.*?)(?=Row: \d+|$)', content, re.DOTALL): one
\* row per marker, holding what follows it up to the next marker or the
\* end; what precedes the first marker is in no row.
RECURSIVE FindRows(_, _)
FindRows(content, i) ==
  IF i > Len(content) THEN <<>>
  ELSE IF content[i] # Marker THEN FindRows(content, i + 1)
  ELSE LET later == { j \in (i + 1)..Len(content) : content[j] = Marker }
           stop == IF later = {} THEN Len(content) + 1
                   ELSE CHOOSE j \in later : \A l \in later : j <= l
       IN  <<SubSeq(content, i + 1, stop - 1)>> \o FindRows(content, stop)

\* The dict details of a row: the value of the last piece with the key, or
\* "absent" (details.get(key, default), 'key' in details).
Details(row, key) ==
  LET at == { i \in 1..Len(row) : row[i].k = key }
  IN  IF at = {} THEN "absent"
      ELSE row[CHOOSE i \in at : \A j \in at : j <= i].v

\* pd.to_datetime(int(v), unit='ms', errors='coerce'): int() raises
\* ValueError on text; a value out of range is NaT or raises, as the
\* library decides (lib).
ToDatetime(v, lib) ==
  CASE v = "num" -> [raised |-> FALSE, date |-> "Timestamp"]
    [] v = "huge" /\ lib = "coerce" -> [raised |-> FALSE, date |-> "NaT"]
    [] OTHER -> [raised |-> TRUE, date |-> "NaT"]

\* The key whose value becomes the date, and the key shown in the title.
DateKey(name) ==
  CASE name \in {"sms.txt", "calls.txt"} -> "date"
    [] name = "calendar.txt" -> "dtstart"
    [] OTHER -> "none"

TitleKey(name) ==
  CASE name = "sms.txt" -> "address"
    [] name = "calls.txt" -> "number"
    [] name = "contacts.txt" -> "display_name"
    [] name = "calendar.txt" -> "title"
    [] OTHER -> "word"

ArtifactType(name) ==
  CASE name = "sms.txt" -> "SMS (Query)"
    [] name = "calls.txt" -> "Call Log (Query)"
    [] name = "contacts.txt" -> "Contact (Query)"
    [] name = "calendar.txt" -> "Calendar"
    [] OTHER -> "User Dictionary"

\* The body of the inner try for one row: the record appended, or raised.
\* (The body and type columns are formatted from the same dict and cannot
\* raise; they are left out of the record.)
RowRecord(name, row, lib) ==
  LET dv == IF DateKey(name) = "none" THEN "absent"
            ELSE Details(row, DateKey(name))
      dt == IF dv = "absent" THEN [raised |-> FALSE, date |-> "NaT"]
            ELSE ToDatetime(dv, lib)
      tv == Details(row, TitleKey(name))
  IN  [ raised |-> dt.raised,
        rec |-> [ artifact_type |-> ArtifactType(name), date |-> dt.date,
                  title |-> IF tv = "absent" THEN "Unknown" ELSE tv ] ]

\* for row in rows: try: ... data_list.append(...) except: continue
RECURSIVE RowLoop(_, _, _, _, _)
RowLoop(name, rows, i, lib, data_list) ==
  IF i > Len(rows) THEN [raised |-> FALSE, data_list |-> data_list]
  ELSE LET r == RowRecord(name, rows[i], lib)
       IN  RowLoop(name, rows, i + 1, lib,
                   IF r.raised THEN data_list ELSE Append(data_list, r.rec))

\* One file block without its outer try: what open() and read() raise
\* leaves the function.
FileBlock_NoFileGuard(name, content, lib, data_list) ==
  IF content = Absent THEN [raised |-> FALSE, data_list |-> data_list]
  ELSE IF content = Undecodable
       THEN [raised |-> TRUE, data_list |-> data_list]
       ELSE RowLoop(name, FindRows(content, 1), 1, lib, data_list)

\* One file block: if os.path.exists(file): try: read, findall, row loop;
\* except: pass.  What the row loop appended before an exception stays.
FileBlock(name, content, lib, data_list) ==
  IF content = Absent THEN [raised |-> FALSE, data_list |-> data_list]
  ELSE IF content = Undecodable
       THEN [raised |-> FALSE, data_list |-> data_list]
       ELSE LET rl == RowLoop(name, FindRows(content, 1), 1, lib, data_list)
            IN  [raised |-> FALSE, data_list |-> rl.data_list]

\* The five blocks in turn, then return pd.DataFrame(data_list); an
\* exception that leaves a block leaves the function.
RECURSIVE FileBlocks(_, _, _, _)
FileBlocks(dir, f, lib, data_list) ==
  IF f > Len(QueryFileNames) THEN [raised |-> FALSE, table |-> data_list]
  ELSE LET b == FileBlock(QueryFileNames[f], dir[QueryFileNames[f]], lib,
                          data_list)
       IN  IF b.raised THEN [raised |-> TRUE, table |-> <<>>]
           ELSE FileBlocks(dir, f + 1, lib, b.data_list)

parse_content_query(dir, lib) == FileBlocks(dir, 1, lib, <<>>)

\* QuerySpec: one call of parse_content_query on a directory drawn from
\* QueryDirs, logged in calls.
QueryInit ==
  /\ fs = EmptyDir
  /\ calls = <<>>
  /\ RunIdle

ParseContentQueryCall ==
  /\ calls = <<>>
  /\ \E dir \in QueryDirs, lib \in {"coerce", "raise"} :
       calls' = <<[ op |-> "parse_content_query", dir |-> dir, lib |-> lib,
                    out |-> parse_content_query(dir, lib) ]>>
  /\ UNCHANGED <<fs, runVars, guiVars>>

QueryNext == ParseContentQueryCall

QuerySpec == QueryInit /\ [][QueryNext]_vars

\* The rows of one file whose date conversion raises.
BadRows(name, content, lib) ==
  { i \in 1..Len(FindRows(content, 1)) :
      /\ DateKey(name) # "none"
      /\ Details(FindRows(content, 1)[i], DateKey(name))
           \in {"text"} \cup (IF lib = "raise" THEN {"huge"} ELSE {}) }

Readable(content) == content \notin {Absent, Undecodable}

\* The number of markers of the readable files, and of their bad rows.
RECURSIVE RowCount(_, _, _, _)
RowCount(dir, f, lib, bad) ==
  IF f > Len(QueryFileNames) THEN 0
  ELSE LET n == QueryFileNames[f]
           here == IF ~Readable(dir[n]) THEN 0
                   ELSE IF bad THEN Cardinality(BadRows(n, dir[n], lib))
                   ELSE Len(FindRows(dir[n], 1))
       IN  here + RowCount(dir, f + 1, lib, bad)

\* C31: parse_content_query raises for no content of the five files
\* (undecodable bytes, rows without '=', dates that are no number, empty
\* files): it returns a table, and what is malformed only costs records:
\* the table has one record for each row of each readable file except the
\* rows whose date does not convert, and never more records than rows.
C31_NeverRaises ==
  \A i \in 1..Len(calls) :
    calls[i].op = "parse_content_query" =>
      /\ ~calls[i].out.raised
      /\ Len(calls[i].out.table)
           = RowCount(calls[i].dir, 1, calls[i].lib, FALSE)
               - RowCount(calls[i].dir, 1, calls[i].lib, TRUE)
      /\ Len(calls[i].out.table) <= RowCount(calls[i].dir, 1, calls[i].lib, FALSE)

\* A directory with an undecodable sms.txt, a calendar row whose dtstart
\* is no number and a contacts row without '=' has been parsed: the call
\* returned the table of the remaining records.
C31_Witness ==
  \E i \in 1..Len(calls) :
    /\ calls[i].op = "parse_content_query"
    /\ calls[i].dir["sms.txt"] = Undecodable
    /\ calls[i].dir["calendar.txt"] = <<Marker, [k |-> "dtstart", v |-> "text"]>>
    /\ calls[i].dir["contacts.txt"] # Absent
    /\ calls[i].dir["dictionary.txt"] = <<>>
    /\ ~calls[i].out.raised
    /\ Len(calls[i].out.table) = IF calls[i].dir["calls.txt"] \in {Absent, Undecodable}
                                 THEN 2 ELSE 3

\* ------------------------------------------------------------------------
\* GuiSpec: the window's buttons, its worker threads and the callbacks they
\* schedule on the main loop (gui_linux.py, gui_windows.py).
\*
\* A click reaches its handler only while the button is in state 'normal'.
\* Handlers and callbacks run on the main loop, one at a time; worker
\* threads end at any moment.  Message boxes are taken as dismissed at
\* once.  Callbacks that touch no button (update_status, update_progress,
\* show_error) are left out of the queue.
\* ------------------------------------------------------------------------

\* The most acquisition runs alive at a time that the model follows.
MaxRuns == 2

\* The most callbacks waiting for the main loop that the model follows.
MaxAfter == 2

Runs == threads.extract + threads.backup

GuiInit ==
  /\ fs = EmptyDir
  /\ calls = <<>>
  /\ RunIdle

\* check_device: disables its button and starts the check thread.
ClickCheckDevice ==
  /\ check_device_btn = "normal"
  /\ check_device_btn' = "disabled"
  /\ threads' = [threads EXCEPT !.check = @ + 1]
  /\ UNCHANGED <<extract_btn, extract_backup_btn, after, fs, calls, runVars>>

\* The thread body check(): without adb it schedules the re-enabling of the
\* check button, otherwise on_device_check_complete with the outcome of
\* check_device_connected.
CheckThreadEnds ==
  /\ threads.check > 0
  /\ Len(after) < MaxAfter
  /\ threads' = [threads EXCEPT !.check = @ - 1]
  /\ \E adb \in BOOLEAN, device \in BOOLEAN :
       after' = Append(after,
                  IF ~adb THEN [fn |-> "check_device_btn.config", arg |-> TRUE]
                  ELSE [fn |-> "on_device_check_complete", arg |-> device])
  /\ UNCHANGED <<check_device_btn, extract_btn, extract_backup_btn, fs, calls,
                 runVars>>

\* start_extraction and start_backup_extraction: both acquisition buttons
\* are disabled and a thread running the strategy is started.  In
\* gui_windows.py an empty case name (named = FALSE) re-enables the buttons
\* and starts nothing; gui_linux.py has no case name (named = TRUE).
StartRun(kind, named) ==
  /\ Runs < MaxRuns
  /\ IF named
     THEN /\ extract_btn' = "disabled"
          /\ extract_backup_btn' = "disabled"
          /\ threads' = [threads EXCEPT ![kind] = @ + 1]
     ELSE /\ extract_btn' = "normal"
          /\ extract_backup_btn' = "normal"
          /\ threads' = threads
  /\ UNCHANGED <<check_device_btn, after, fs, calls, runVars>>

ClickExtract ==
  /\ extract_btn = "normal"
  /\ \E named \in BOOLEAN : StartRun("extract", named)

ClickExtractBackup ==
  /\ extract_backup_btn = "normal"
  /\ \E named \in BOOLEAN : StartRun("backup", named)

\* The thread body extract(): the strategy returns its results and
\* on_extraction_complete is scheduled with them.
RunThreadEnds ==
  /\ Len(after) < MaxAfter
  /\ \E kind \in {"extract", "backup"}, success \in BOOLEAN :
       /\ threads[kind] > 0
       /\ threads' = [threads EXCEPT ![kind] = @ - 1]
       /\ after' = Append(after, [fn |-> "on_extraction_complete",
                                  arg |-> success])
  /\ UNCHANGED <<check_device_btn, extract_btn, extract_backup_btn, fs, calls,
                 runVars>>

\* The main loop runs the oldest scheduled callback.
\* on_device_check_complete re-enables the check button and, on success,
\* sets both acquisition buttons to 'normal'; on_extraction_complete sets
\* both acquisition buttons to 'normal'.
RunCallback ==
  /\ after # <<>>
  /\ after' = Tail(after)
  /\ LET cb == Head(after)
     IN  /\ check_device_btn' =
               IF cb.fn \in {"check_device_btn.config", "on_device_check_complete"}
               THEN "normal" ELSE check_device_btn
         /\ extract_btn' =
               IF \/ cb.fn = "on_extraction_complete"
                  \/ cb.fn = "on_device_check_complete" /\ cb.arg
               THEN "normal" ELSE extract_btn
         /\ extract_backup_btn' =
               IF \/ cb.fn = "on_extraction_complete"
                  \/ cb.fn = "on_device_check_complete" /\ cb.arg
               THEN "normal" ELSE extract_backup_btn
  /\ UNCHANGED <<threads, fs, calls, runVars>>

GuiNext ==
  \/ ClickCheckDevice
  \/ CheckThreadEnds
  \/ ClickExtract
  \/ ClickExtractBackup
  \/ RunThreadEnds
  \/ RunCallback

GuiSpec == GuiInit /\ [][GuiNext]_vars

\* C33: the window serializes acquisition: whatever the order of the
\* clicks on the three buttons and of the completion callbacks, at most
\* one acquisition run is active at any time; a device check that
\* completes while a run is in progress does not make a second run
\* possible.
C33_AtMostOneRun == Runs <= 1

====
